---- MODULE Spec2Model ----
(***************************************************************************)
(* Model of the event-aggregation core of the Obsidian calendar plugin:    *)
(* DateUtils (src/src/types.ts) and CalendarCore (src/src/utils.ts).       *)
(*                                                                         *)
(* Representation                                                          *)
(*   Date      an integer: the number of the local calendar day, counted   *)
(*             from 1970-01-01 (day 0).  Every Date the core handles in    *)
(*             the modelled operations is a local midnight, so the time of *)
(*             day is not represented.  NaN is the invalid Date.           *)
(*   string    a sequence of character codes ("0" = 48, "-" = 45); the     *)
(*             empty sequence also stands for an absent (undefined)        *)
(*             optional string, which the code treats alike (both falsy).  *)
(*   Map       a function from its keys to their values.                   *)
(***************************************************************************)
EXTENDS Integers, Sequences, FiniteSets, TLC

VARIABLES
    phase,          \* which operation acted last
    today,          \* new Date(): the current local day
    now,            \* Date.now(): the clock in ms
    settings,       \* CalendarCore.settings (the fields the model reads)
    files,          \* app.vault.getMarkdownFiles() with their metadata
    eventCache,     \* CalendarCore.eventCache
    lastCacheUpdate,\* CalendarCore.lastCacheUpdate
    reads,          \* number of getMarkdownFiles() calls so far
    installedAt,    \* clock value of the rebuild that installed eventCache
    installed,      \* the index as that rebuild installed it
    since,          \* what happened since the last get: "invalidate", "store"
    lastGet,        \* the most recent getEventsWithDates call: its time t, whether it
                    \* rebuilt, the age of the last rebuild and what had happened
                    \* since the call before (gap: the ms between the two), its result
    held,           \* the Map a caller keeps from a getEventsWithDates call (waiting:
                    \* it will keep the one of the next call): its entries now and
                    \* as returned, whether it is the Map object of the index
                    \* (whole) and whether that index is still the one in
                    \* eventCache (current)
    draft,          \* the CalendarEvent handed to an expander
    window,         \* <<viewStartDate, viewEndDate>> of the call
    out,            \* Map the expander has filled
    body,           \* number of executions of the recurrence loop body
    refDate,        \* currentMonth argument of getDaysForMonth
    days,           \* result of getDaysForMonth
    view,           \* CalendarView: its currentDate and viewMode
    nav,            \* the last two navigation calls of the view (op, and from: the
                    \* currentDate before it) and the number of calls so far
    bus,            \* the EventBus: the listeners of one event in insertion order,
                    \* and what its callbacks did so far
    timer,          \* a debounced function: the clock, its pending timeouts, its
                    \* calls and the executions of fn
    call,           \* a call of a utility function: its name and arguments
    ret             \* what the call returned

vars == <<phase, today, now, settings, files, eventCache, lastCacheUpdate, reads,
          installedAt, installed, since, lastGet, held, draft, window, out, body, refDate, days, view, nav,
          bus, timer, call, ret>>

cacheVars ==
    <<now, files, eventCache, lastCacheUpdate, reads, installedAt, installed, since, lastGet,
      held>>
expandVars == <<draft, window, out, body>>
gridVars == <<refDate, days, view, nav>>
utilVars == <<call, ret>>
pluginVars == <<bus, timer>>

-----------------------------------------------------------------------------
(* JavaScript Date arithmetic on local calendar days *)

NaN == 0 - 1000000
Undefined == 0 - 2000000

DateLe(a, b) == a # NaN /\ b # NaN /\ a <= b
DateGe(a, b) == a # NaN /\ b # NaN /\ a >= b

IsLeap(y) == (y % 4 = 0 /\ y % 100 # 0) \/ y % 400 = 0

DayFromYear(y) ==
    365 * (y - 1970) + ((y - 1969) \div 4) - ((y - 1901) \div 100) + ((y - 1601) \div 400)

CumDays == <<0, 31, 59, 90, 120, 151, 181, 212, 243, 273, 304, 334>>

\* first day of month m (0..11) of year y
MonthStart(y, m) ==
    DayFromYear(y) + CumDays[m + 1] + (IF IsLeap(y) /\ m >= 2 THEN 1 ELSE 0)

\* new Date(year, month, date): month and date overflow into the next unit
MakeDay(y, m, dt) == MonthStart(y + (m \div 12), m % 12) + (dt - 1)

\* the year day t lies in
YearFromTime(t) ==
    CHOOSE yy \in (1970 + (IF t >= 0 THEN t \div 366 ELSE (t \div 365) - 1))
                   ..(1970 + (IF t >= 0 THEN (t \div 365) + 1 ELSE (t \div 366) + 1)) :
        DayFromYear(yy) <= t /\ t < DayFromYear(yy + 1)

\* the month (0..11) of year y day t lies in
MonthFromTime(y, t) ==
    CHOOSE mm \in 0..11 : MonthStart(y, mm) <= t /\ (mm = 11 \/ t < MonthStart(y, mm + 1))

DateFromTime(y, m, t) == <<y, m, t - MonthStart(y, m) + 1>>

CivilInYear(y, t) == DateFromTime(y, MonthFromTime(y, t), t)

\* year, month (0..11) and day of the month of day t
Civil(t) == CivilInYear(YearFromTime(t), t)

getFullYear(t) == Civil(t)[1]

getMonth(t) == Civil(t)[2]

getDate(t) == Civil(t)[3]

getDay(t) == (t + 4) % 7

-----------------------------------------------------------------------------
(* strings *)

IsDigit(c) == c >= 48 /\ c <= 57

RECURSIVE NumStr(_)
NumStr(n) == IF n < 10 THEN <<48 + n>> ELSE NumStr(n \div 10) \o <<48 + (n % 10)>>

padStart2(s) == IF Len(s) < 2 THEN <<48>> \o s ELSE s

RECURSIVE StrLt(_, _)
StrLt(a, b) ==
    IF Len(b) = 0 THEN FALSE
    ELSE IF Len(a) = 0 THEN TRUE
    ELSE IF Head(a) # Head(b) THEN Head(a) < Head(b)
    ELSE StrLt(Tail(a), Tail(b))

StrLe(a, b) == a = b \/ StrLt(a, b)

toLowerCase(str) == [i \in 1..Len(str) |-> IF str[i] >= 65 /\ str[i] <= 90 THEN str[i] + 32 ELSE str[i]]

RECURSIVE trimStart(_)
trimStart(str) ==
    IF Len(str) > 0 /\ Head(str) \in {32, 9, 10, 13} THEN trimStart(Tail(str)) ELSE str

RECURSIVE trimEnd(_)
trimEnd(str) ==
    IF Len(str) > 0 /\ str[Len(str)] \in {32, 9, 10, 13}
    THEN trimEnd(SubSeq(str, 1, Len(str) - 1))
    ELSE str

trim(str) == trimEnd(trimStart(str))

-----------------------------------------------------------------------------
(* DateUtils *)

\* `${year}-${month}-${day}` of the fields c = <<year, month0, day>>
FormatFields(c) ==
    LET year == c[1]
        month == padStart2(NumStr(c[2] + 1))
        day == padStart2(NumStr(c[3]))
    IN  NumStr(year) \o <<45>> \o month \o <<45>> \o day

toDateString(date) == FormatFields(Civil(date))

\* new Date(dateStr + 'T00:00:00'): the ISO form parses to the local midnight of
\* the day; V8 accepts a day of 1..31 in every month and lets it overflow.
fromDateString(s) ==
    IF /\ Len(s) = 10
       /\ s[5] = 45 /\ s[8] = 45
       /\ \A i \in {1, 2, 3, 4, 6, 7, 9, 10} : IsDigit(s[i])
    THEN LET y == 1000 * (s[1] - 48) + 100 * (s[2] - 48) + 10 * (s[3] - 48) + (s[4] - 48)
             m == 10 * (s[6] - 48) + (s[7] - 48)
             d == 10 * (s[9] - 48) + (s[10] - 48)
         IN  IF m >= 1 /\ m <= 12 /\ d >= 1 /\ d <= 31 THEN MakeDay(y, m - 1, d) ELSE NaN
    ELSE NaN

\* result.setMonth(month): c = <<year, month0, day>> are the fields of result
setMonth(c, month) == MakeDay(c[1], month, c[3])

\* result.setDate(dt)
setDate(c, dt) == MakeDay(c[1], c[2], dt)

\* the day of the month kept at most at the last day of the target month
addMonths_Clamp(date, months) ==
    IF getDate(date) > MakeDay(getFullYear(date), getMonth(date) + months + 1, 1)
                          - MakeDay(getFullYear(date), getMonth(date) + months, 1)
    THEN MakeDay(getFullYear(date), getMonth(date) + months + 1, 1) - 1
    ELSE setMonth(Civil(date), getMonth(date) + months)

addMonths(date, months) == setMonth(Civil(date), getMonth(date) + months)

addDays(date, n) == setDate(Civil(date), getDate(date) + n)

isWeekend(date) == getDay(date) = 0 \/ getDay(date) = 6

\* Date.prototype.toDateString(): weekday, month, day and year of the local day
isSameDay(d1, d2) ==
    <<getDay(d1), getMonth(d1), getDate(d1), getFullYear(d1)>>
        = <<getDay(d2), getMonth(d2), getDate(d2), getFullYear(d2)>>

\* str.replace(/pattern/g, replacement) for a pattern of literal characters:
\* the matches are found from left to right and do not overlap
RECURSIVE ReplaceLoop(_, _, _, _, _)
ReplaceLoop(str, pattern, replacement, i, acc) ==
    IF i > Len(str) THEN acc
    ELSE IF i + Len(pattern) - 1 <= Len(str) /\ SubSeq(str, i, i + Len(pattern) - 1) = pattern
    THEN ReplaceLoop(str, pattern, replacement, i + Len(pattern), acc \o replacement)
    ELSE ReplaceLoop(str, pattern, replacement, i + 1, Append(acc, str[i]))

replace(str, pattern, replacement) == ReplaceLoop(str, pattern, replacement, 1, <<>>)

\* str.slice(-2)
sliceLast2(str) == IF Len(str) <= 2 THEN str ELSE SubSeq(str, Len(str) - 1, Len(str))

\* date.toLocaleDateString('en-US', { month: 'long' }), by getMonth() + 1
MonthNames ==
    <<<<74, 97, 110, 117, 97, 114, 121>>,
      <<70, 101, 98, 114, 117, 97, 114, 121>>,
      <<77, 97, 114, 99, 104>>,
      <<65, 112, 114, 105, 108>>,
      <<77, 97, 121>>,
      <<74, 117, 110, 101>>,
      <<74, 117, 108, 121>>,
      <<65, 117, 103, 117, 115, 116>>,
      <<83, 101, 112, 116, 101, 109, 98, 101, 114>>,
      <<79, 99, 116, 111, 98, 101, 114>>,
      <<78, 111, 118, 101, 109, 98, 101, 114>>,
      <<68, 101, 99, 101, 109, 98, 101, 114>>>>

\* date.toLocaleDateString('en-US', { month: 'short' })
ShortMonthNames == [i \in 1..12 |-> SubSeq(MonthNames[i], 1, 3)]

\* date.toLocaleDateString('en-US', { weekday: 'long' }), by getDay() + 1
DayNames ==
    <<<<83, 117, 110, 100, 97, 121>>,
      <<77, 111, 110, 100, 97, 121>>,
      <<84, 117, 101, 115, 100, 97, 121>>,
      <<87, 101, 100, 110, 101, 115, 100, 97, 121>>,
      <<84, 104, 117, 114, 115, 100, 97, 121>>,
      <<70, 114, 105, 100, 97, 121>>,
      <<83, 97, 116, 117, 114, 100, 97, 121>>>>

\* date.toLocaleDateString('en-US', { weekday: 'short' })
ShortDayNames == [i \in 1..7 |-> SubSeq(DayNames[i], 1, 3)]

\* the chain of replace calls of formatDate on the values of the tokens
replaceTokens(format, year, month, day, monthName, shortMonthName, dayName, shortDayName, monthNumber, dateNumber) ==
    replace(replace(replace(replace(replace(replace(replace(replace(replace(replace(format,
        <<89, 89, 89, 89>>, year),
        <<89, 89>>, sliceLast2(year)),
        <<77, 77, 77, 77>>, monthName),
        <<77, 77, 77>>, shortMonthName),
        <<77, 77>>, month),
        <<77>>, monthNumber),
        <<100, 100, 100, 100>>, dayName),
        <<100, 100, 100>>, shortDayName),
        <<68, 68>>, day),
        <<68>>, dateNumber)

\* DateUtils.locale is 'en-US'
formatDate(date, format) ==
    replaceTokens(format,
                  NumStr(getFullYear(date)),
                  padStart2(NumStr(getMonth(date) + 1)),
                  padStart2(NumStr(getDate(date))),
                  MonthNames[getMonth(date) + 1],
                  ShortMonthNames[getMonth(date) + 1],
                  DayNames[getDay(date) + 1],
                  ShortDayNames[getDay(date) + 1],
                  NumStr(getMonth(date) + 1),
                  NumStr(getDate(date)))

\* the null result of parseTime
Null == 0 - 1

\* the hours and minutes of parseTime once the pattern has matched
timeOfDay(hours, minutes, ampm) ==
    LET h == IF ampm = "PM" /\ hours # 12 THEN hours + 12
             ELSE IF ampm = "AM" /\ hours = 12 THEN 0
             ELSE hours
    IN  IF h < 0 \/ h > 23 \/ minutes < 0 \/ minutes > 59 THEN Null ELSE h * 60 + minutes

\* \s*(AM|PM)?$ on the rest of the string: "AM", "PM", "" or "nomatch"
matchAmPm(rest) ==
    LET word == toLowerCase(trimStart(rest))
    IN  IF word = <<>> THEN ""
        ELSE IF word = <<97, 109>> THEN "AM"
        ELSE IF word = <<112, 109>> THEN "PM"
        ELSE "nomatch"

\* (?::(\d{2}))? : the rest of the string after the optional seconds
skipSeconds(rest) ==
    IF Len(rest) >= 3 /\ rest[1] = 58 /\ IsDigit(rest[2]) /\ IsDigit(rest[3])
    THEN SubSeq(rest, 4, Len(rest))
    ELSE rest

\* /^(\d{1,2}):(\d{2})(?::(\d{2}))?\s*(AM|PM)?$/i with n digits of hours
matchTime(timeStr, n) ==
    IF /\ Len(timeStr) >= n + 3
       /\ \A i \in 1..n : IsDigit(timeStr[i])
       /\ timeStr[n + 1] = 58
       /\ IsDigit(timeStr[n + 2]) /\ IsDigit(timeStr[n + 3])
       /\ matchAmPm(skipSeconds(SubSeq(timeStr, n + 4, Len(timeStr)))) # "nomatch"
    THEN timeOfDay(IF n = 1 THEN timeStr[1] - 48 ELSE 10 * (timeStr[1] - 48) + (timeStr[2] - 48),
                   10 * (timeStr[n + 2] - 48) + (timeStr[n + 3] - 48),
                   matchAmPm(skipSeconds(SubSeq(timeStr, n + 4, Len(timeStr)))))
    ELSE Null

parseTime(timeStr) ==
    IF timeStr = <<>> THEN Null
    ELSE IF Len(timeStr) >= 2 /\ IsDigit(timeStr[1]) /\ IsDigit(timeStr[2]) THEN matchTime(timeStr, 2)
    ELSE matchTime(timeStr, 1)

\* new Date(date.getFullYear(), date.getMonth(), date.getDate())
dateOnly(date) == MakeDay(getFullYear(date), getMonth(date), getDate(date))

\* Math.ceil of (the days from the 1st of January of d's year to d, plus extra) / 7
weekOfYear(d, yearStart, extra) == (((d - yearStart) + extra) + 6) \div 7

\* the ISO branch: d moves to the Thursday of its week
isoWeek(d) == weekOfYear(d, MakeDay(getFullYear(d), 0, 1), 1)

isoThursday_NoShift(d, dayNum) == d

isoThursday(d, dayNum) == d + 4 - dayNum

\* the Sunday branch
sundayWeek(d, startOfYear) == weekOfYear(d, startOfYear, getDay(startOfYear) + 1)

getWeekNumber(date, weekStartsOn) ==
    IF weekStartsOn = 1
    THEN isoWeek(isoThursday(dateOnly(date), IF getDay(date) = 0 THEN 7 ELSE getDay(date)))
    ELSE sundayWeek(dateOnly(date), MakeDay(getFullYear(date), 0, 1))

\* the while condition of getDatesBetween
DatesGuard_Exclusive(current, end) == current # NaN /\ end # NaN /\ current < end

DatesGuard(current, end) == DateLe(current, end)

RECURSIVE DatesLoop(_, _, _)
DatesLoop(current, end, dates) ==
    IF DatesGuard(current, end)
    THEN DatesLoop(addDays(current, 1), end, Append(dates, current))
    ELSE dates

getDatesBetween(start, end) == DatesLoop(start, end, <<>>)

-----------------------------------------------------------------------------
(* CalendarCore: the event index and the expanders *)

LoopFuel == 2048

cacheTimeout == 5000

maxIterations == 365 * 2

EmptyMap == [k \in {} |-> <<>>]

Range(seq) == {seq[i] : i \in 1..Len(seq)}

Recurring == {"daily", "weekly", "monthly", "yearly"}

addEventToMap(map, dateStr, event) ==
    IF dateStr \in DOMAIN map
    THEN [map EXCEPT ![dateStr] = Append(@, event)]
    ELSE map @@ (dateStr :> <<event>>)

\* the while condition of addRecurringEvents
RecurGuard_NoCap(currentDate, endDate, iterations) == DateLe(currentDate, endDate)

RecurGuard(currentDate, endDate, iterations) ==
    DateLe(currentDate, endDate) /\ iterations < maxIterations

\* "Only include if in view range" and, for daily with weekday filter, on a
\* specified day
shouldInclude(event, currentDate, actualStartDate) ==
    IF /\ DateGe(currentDate, actualStartDate)
       /\ event.recurrence = "daily" /\ Len(event.recurrenceDays) > 0
    THEN getDay(currentDate) \in Range(event.recurrenceDays)
    ELSE DateGe(currentDate, actualStartDate)

RecurEmit_OwnDate(map, event, dateStr) ==
    addEventToMap(map, dateStr, [event EXCEPT !.dateStr = dateStr,
                                              !.isRecurring = TRUE,
                                              !.originalDateStr = dateStr])

\* the recurringEvent of one pass, added to the map
RecurEmit(map, event, dateStr) ==
    addEventToMap(map, dateStr, [event EXCEPT !.dateStr = dateStr,
                                              !.isRecurring = TRUE,
                                              !.originalDateStr = event.dateStr])

\* "Move to next occurrence"; map1 is the map after the pass
RecurAdvance(event, s, map1) ==
    CASE event.recurrence = "daily" ->
            [currentDate |-> addDays(s.currentDate, 1), iterations |-> s.iterations + 1,
             map |-> map1, body |-> s.body + 1, halted |-> FALSE]
      [] event.recurrence = "weekly" ->
            [currentDate |-> addDays(s.currentDate, 7), iterations |-> s.iterations + 1,
             map |-> map1, body |-> s.body + 1, halted |-> FALSE]
      [] event.recurrence = "monthly" ->
            [currentDate |-> addMonths(s.currentDate, 1), iterations |-> s.iterations + 1,
             map |-> map1, body |-> s.body + 1, halted |-> FALSE]
      [] event.recurrence = "yearly" ->
            [currentDate |-> addMonths(s.currentDate, 12), iterations |-> s.iterations + 1,
             map |-> map1, body |-> s.body + 1, halted |-> FALSE]
      [] OTHER ->
            [currentDate |-> s.currentDate, iterations |-> s.iterations,
             map |-> map1, body |-> s.body + 1, halted |-> TRUE]

\* one pass of the while loop of addRecurringEvents; s.halted: the loop was left
RecurStep(event, endDate, actualStartDate, s) ==
    IF ~RecurGuard(s.currentDate, endDate, s.iterations)
    THEN [s EXCEPT !.halted = TRUE]
    ELSE RecurAdvance(event, s,
                      IF shouldInclude(event, s.currentDate, actualStartDate)
                      THEN RecurEmit(s.map, event, toDateString(s.currentDate))
                      ELSE s.map)

\* the passes of the loop in sequence, at most n of them, evaluated by halving
RECURSIVE RecurRun(_, _, _, _, _)
RecurRest(event, endDate, actualStartDate, mid, n) ==
    IF mid.halted THEN mid ELSE RecurRun(event, endDate, actualStartDate, mid, n)

RecurRun(event, endDate, actualStartDate, s, n) ==
    IF s.halted \/ n = 0 THEN s
    ELSE IF n = 1 THEN RecurStep(event, endDate, actualStartDate, s)
    ELSE RecurRest(event, endDate, actualStartDate,
                   RecurRun(event, endDate, actualStartDate, s, n \div 2), n - (n \div 2))

RecurResult(s) == [map |-> s.map, body |-> s.body]

\* addRecurringEvents: the filled map and the number of loop passes
addRecurringEvents(map, event, viewStartDate, viewEndDate, newDate) ==
    LET startDate == fromDateString(event.dateStr)
        endDate == IF viewEndDate # Undefined THEN viewEndDate ELSE addMonths(newDate, 12)
        actualStartDate ==
            IF viewStartDate # Undefined THEN viewStartDate ELSE addMonths(newDate, 0 - 1)
    IN  RecurResult(RecurRun(event, endDate, actualStartDate,
                             [currentDate |-> startDate, iterations |-> 0, map |-> map,
                              body |-> 0, halted |-> FALSE], LoopFuel))

\* the rangeEvent of one date, added to the map
RangeEmit(map, event, dateStr) ==
    addEventToMap(map, dateStr, [event EXCEPT !.dateStr = dateStr])

RECURSIVE RangeLoop(_, _, _, _)
RangeLoop(map, event, dates, i) ==
    IF i > Len(dates) THEN map
    ELSE RangeLoop(RangeEmit(map, event, toDateString(dates[i])), event, dates, i + 1)

addDateRangeEvents(map, event) ==
    IF event.endDateStr = <<>>
    THEN addEventToMap(map, event.dateStr, event)
    ELSE LET startDate == fromDateString(event.dateStr)
             endDate == fromDateString(event.endDateStr)
             dates == getDatesBetween(startDate, endDate)
         IN  RangeLoop(map, event, dates, 1)

RouteEvent_RangeFirst(acc, event, viewStartDate, viewEndDate, newDate) ==
    IF event.endDateStr # <<>>
    THEN [map |-> addDateRangeEvents(acc.map, event), body |-> acc.body]
    ELSE IF event.recurrence # "undefined" /\ event.recurrence # "none"
    THEN addRecurringEvents(acc.map, event, viewStartDate, viewEndDate, newDate)
    ELSE [map |-> addEventToMap(acc.map, event.dateStr, event), body |-> acc.body]

\* the routing of one event inside the rebuild of getEventsWithDates
RouteEvent(acc, event, viewStartDate, viewEndDate, newDate) ==
    IF event.recurrence # "undefined" /\ event.recurrence # "none"
    THEN addRecurringEvents(acc.map, event, viewStartDate, viewEndDate, newDate)
    ELSE IF event.endDateStr # <<>>
    THEN [map |-> addDateRangeEvents(acc.map, event), body |-> acc.body]
    ELSE [map |-> addEventToMap(acc.map, event.dateStr, event), body |-> acc.body]

-----------------------------------------------------------------------------
(* CalendarCore: extraction of events from a file's metadata                *)
(* A frontmatter value is a record [kind, items]: kind "absent", "scalar"   *)
(* (items = <<string>>) or "array" (items = its elements as strings).       *)

\* a CalendarEvent as createEventsFromFile builds it
NewEvent(file, normalizedDate, normalizedEndDate, time, color, recurrence, recurrenceDays) ==
    [file |-> file.path,
     title |-> file.basename,
     dateStr |-> normalizedDate,
     endDateStr |-> normalizedEndDate,
     time |-> time,
     color |-> color,
     recurrence |-> recurrence,
     recurrenceDays |-> recurrenceDays,
     isRecurring |-> (recurrence # "undefined" /\ recurrence # "none"),
     originalDateStr |-> normalizedDate]

IsSeparator_NoComma(c) == c = 32 \/ c = 9 \/ c = 10 \/ c = 13

IsSeparator(c) == c = 44 \/ c = 32 \/ c = 9 \/ c = 10 \/ c = 13

\* str.split(/[,\s]+/): the pieces between maximal runs of separators; like
\* split, it yields an empty first (last) piece when str starts (ends) with one
RECURSIVE SplitLoop(_, _, _, _)
SplitLoop(str, i, piece, pieces) ==
    IF i > Len(str) THEN Append(pieces, piece)
    ELSE IF IsSeparator(str[i])
    THEN IF i > 1 /\ IsSeparator(str[i - 1])
         THEN SplitLoop(str, i + 1, piece, pieces)
         ELSE SplitLoop(str, i + 1, <<>>, Append(pieces, piece))
    ELSE SplitLoop(str, i + 1, Append(piece, str[i]), pieces)

split(str) == SplitLoop(str, 1, <<>>, <<>>)

SelectNonEmpty(strs) == SelectSeq(strs, LAMBDA t : Len(t) > 0)

\* tag.replace(/^#/, '')
stripHash(tag) == IF Len(tag) > 0 /\ Head(tag) = 35 THEN Tail(tag) ELSE tag

hasRequiredTags(cache, sett) ==
    LET tagFilter == trim(sett.tagFilter)
        requiredTags == SelectNonEmpty(split(tagFilter))
        inlineTags == [i \in 1..Len(cache.tags) |-> stripHash(cache.tags[i])]
        frontmatterTags ==
            IF cache.hasFrontmatter /\ cache.frontmatter.tags.kind # "absent"
            THEN cache.frontmatter.tags.items
            ELSE <<>>
        fileTags == Range(inlineTags \o frontmatterTags)
    IN  IF Len(tagFilter) = 0 THEN TRUE
        ELSE IF Len(requiredTags) = 0 THEN TRUE
        ELSE IF sett.tagFilterMode = "all"
        THEN \A i \in 1..Len(requiredTags) : requiredTags[i] \in fileTags
        ELSE \E i \in 1..Len(requiredTags) : requiredTags[i] \in fileTags

\* a null element of a frontmatter array
NullValue == <<0>>

\* dateValue.map(d => d.toString()) throws a TypeError on a null element
toStringThrows(value) == value.kind = "array" /\ NullValue \in Range(value.items)

\* createEventsFromFile throws: getDatesFromFrontmatter on its date property
createEventsFromFileThrows(cache) ==
    cache.hasFrontmatter /\ toStringThrows(cache.frontmatter.date)

getDateFromFrontmatter(cache, property) ==
    IF ~cache.hasFrontmatter THEN <<>>
    ELSE LET dateValue == cache.frontmatter[property]
         IN  IF dateValue.kind = "absent" THEN <<>>
             ELSE IF Len(dateValue.items) = 0 THEN <<>>
             ELSE dateValue.items[1]

getDatesFromFrontmatter(cache, property) ==
    IF ~cache.hasFrontmatter THEN <<>>
    ELSE LET dateValue == cache.frontmatter[property]
         IN  IF dateValue.kind = "absent" THEN <<>>
             ELSE IF dateValue.kind = "array" THEN SelectNonEmpty(dateValue.items)
             ELSE dateValue.items

\* null stands for the null result; it is no date string
normalizeDate(dateStr) ==
    LET date == fromDateString(dateStr)
    IN  IF date = NaN THEN <<>> ELSE toDateString(date)

parseRecurrence(value) ==
    IF value.kind = "absent" THEN "undefined"
    ELSE LET str == toLowerCase(value.items[1])
         IN  CASE str = <<100, 97, 105, 108, 121>> -> "daily"
               [] str = <<119, 101, 101, 107, 108, 121>> -> "weekly"
               [] str = <<109, 111, 110, 116, 104, 108, 121>> -> "monthly"
               [] str = <<121, 101, 97, 114, 108, 121>> -> "yearly"
               [] str = <<110, 111, 110, 101>> -> "none"
               [] OTHER -> "undefined"

\* dayMap[name], 0 - 1 when the name is no key
dayMap(name) ==
    CASE name = <<115, 117, 110>> -> 0  \* sun
         [] name = <<115, 117, 110, 100, 97, 121>> -> 0  \* sunday
         [] name = <<109, 111, 110>> -> 1  \* mon
         [] name = <<109, 111, 110, 100, 97, 121>> -> 1  \* monday
         [] name = <<116, 117, 101>> -> 2  \* tue
         [] name = <<116, 117, 101, 115, 100, 97, 121>> -> 2  \* tuesday
         [] name = <<119, 101, 100>> -> 3  \* wed
         [] name = <<119, 101, 100, 110, 101, 115, 100, 97, 121>> -> 3  \* wednesday
         [] name = <<116, 104, 117>> -> 4  \* thu
         [] name = <<116, 104, 117, 114, 115, 100, 97, 121>> -> 4  \* thursday
         [] name = <<102, 114, 105>> -> 5  \* fri
         [] name = <<102, 114, 105, 100, 97, 121>> -> 5  \* friday
         [] name = <<115, 97, 116>> -> 6  \* sat
         [] name = <<115, 97, 116, 117, 114, 100, 97, 121>> -> 6  \* saturday
         [] OTHER -> 0 - 1

\* value.kind "numbers": an array of numbers; "array": an array of strings;
\* "scalar": one string
parseRecurrenceDays(value) ==
    IF value.kind = "absent" THEN <<>>
    ELSE IF value.kind = "numbers"
    THEN SelectSeq(value.items, LAMBDA item : item >= 0 /\ item <= 6)
    ELSE LET parts == IF value.kind = "array" THEN value.items ELSE split(value.items[1])
             named == [i \in 1..Len(parts) |->
                          dayMap(toLowerCase(IF value.kind = "array" THEN parts[i]
                                             ELSE trim(parts[i])))]
         IN  SelectSeq(named, LAMBDA day : day >= 0)

RECURSIVE EventsLoop(_, _, _, _, _, _, _, _, _)
EventsLoop(file, dates, i, endDateStr, time, color, recurrence, recurrenceDays, events) ==
    IF i > Len(dates) THEN events
    ELSE LET normalizedDate == normalizeDate(dates[i])
             normalizedEndDate == IF Len(endDateStr) > 0 THEN normalizeDate(endDateStr) ELSE <<>>
         IN  EventsLoop(file, dates, i + 1, endDateStr, time, color, recurrence, recurrenceDays,
                        IF Len(normalizedDate) = 0 THEN events
                        ELSE Append(events,
                                    NewEvent(file, normalizedDate, normalizedEndDate, time,
                                             color, recurrence, recurrenceDays)))

\* frontmatter.color holds the value SettingsValidator.resolveColor gives back
createEventsFromFile(file, cache) ==
    LET dates == getDatesFromFrontmatter(cache, "date")
    IN  IF Len(dates) = 0 THEN <<>>
        ELSE EventsLoop(file, dates, 1, getDateFromFrontmatter(cache, "endDate"),
                        cache.frontmatter.time, cache.frontmatter.color,
                        parseRecurrence(cache.frontmatter.recurrence),
                        parseRecurrenceDays(cache.frontmatter.recurrenceDays), <<>>)

-----------------------------------------------------------------------------
(* CalendarCore: the cache *)

filterEventsForDateRange(eventsMap, startDate, endDate) ==
    IF startDate = Undefined \/ endDate = Undefined THEN eventsMap
    ELSE LET startStr == toDateString(startDate)
             endStr == toDateString(endDate)
         IN  [dateStr \in {k \in DOMAIN eventsMap : StrLe(startStr, k) /\ StrLe(k, endStr)}
                 |-> eventsMap[dateStr]]

RECURSIVE RouteLoop(_, _, _, _, _, _)
RouteLoop(acc, events, i, viewStartDate, viewEndDate, newDate) ==
    IF i > Len(events) THEN acc
    ELSE RouteLoop(RouteEvent(acc, events[i], viewStartDate, viewEndDate, newDate),
                   events, i + 1, viewStartDate, viewEndDate, newDate)

\* "if (events.length === 0) continue" and the loop over the events
RouteEvents(acc, events, viewStartDate, viewEndDate, newDate) ==
    IF Len(events) = 0 THEN acc
    ELSE RouteLoop(acc, events, 1, viewStartDate, viewEndDate, newDate)

catchError_Abort(acc) == [map |-> EmptyMap, body |-> 0]

\* catch (error) { console.error(...) }: the loop goes on with the next file
catchError(acc) == acc

\* the body of the loop over the files in getEventsWithDates
ProcessFile(acc, file, viewStartDate, viewEndDate, newDate, sett) ==
    IF ~file.cache.exists THEN acc
    ELSE IF ~hasRequiredTags(file.cache, sett) THEN acc
    ELSE IF createEventsFromFileThrows(file.cache) THEN catchError(acc)
    ELSE RouteEvents(acc, createEventsFromFile(file, file.cache),
                     viewStartDate, viewEndDate, newDate)

RECURSIVE FilesLoop(_, _, _, _, _, _, _)
FilesLoop(acc, fs, i, viewStartDate, viewEndDate, newDate, sett) ==
    IF i > Len(fs) THEN acc
    ELSE FilesLoop(ProcessFile(acc, fs[i], viewStartDate, viewEndDate, newDate, sett),
                   fs, i + 1, viewStartDate, viewEndDate, newDate, sett)

\* the index getEventsWithDates builds from the vault
Rebuild(fs, viewStartDate, viewEndDate, newDate, sett) ==
    FilesLoop([map |-> EmptyMap, body |-> 0], fs, 1, viewStartDate, viewEndDate, newDate, sett).map

size(map) == Cardinality(DOMAIN map)

\* "Use cache if valid"
CacheValid_Le(cache, nowMs, lastUpdate) ==
    size(cache) > 0 /\ nowMs - lastUpdate <= cacheTimeout

CacheValid(cache, nowMs, lastUpdate) ==
    size(cache) > 0 /\ nowMs - lastUpdate < cacheTimeout

\* invalidateCache: the cache fields it leaves
Invalidated_NoClear(cache) == [eventCache |-> cache, lastCacheUpdate |-> 0]

Invalidated(cache) == [eventCache |-> EmptyMap, lastCacheUpdate |-> 0]

-----------------------------------------------------------------------------
(* CalendarCore: the events of one day *)

\* DateUtils.parseTime(time) || 0
timeOrZero(time) == IF parseTime(time) = Null THEN 0 ELSE parseTime(time)

compareEvents_UntimedFirst(a, b) ==
    IF a.time = <<>> /\ b.time = <<>> THEN 0
    ELSE IF a.time = <<>> THEN 0 - 1
    ELSE IF b.time = <<>> THEN 1
    ELSE timeOrZero(a.time) - timeOrZero(b.time)

\* the comparator of getDayEvents
compareEvents(a, b) ==
    IF a.time = <<>> /\ b.time = <<>> THEN 0
    ELSE IF a.time = <<>> THEN 1
    ELSE IF b.time = <<>> THEN 0 - 1
    ELSE timeOrZero(a.time) - timeOrZero(b.time)

\* Array.prototype.sort is stable: an element goes behind the elements that
\* do not compare greater than it
RECURSIVE insertSorted(_, _, _)
insertSorted(sorted, e, i) ==
    IF i > Len(sorted) THEN Append(sorted, e)
    ELSE IF compareEvents(sorted[i], e) > 0
    THEN SubSeq(sorted, 1, i - 1) \o <<e>> \o SubSeq(sorted, i, Len(sorted))
    ELSE insertSorted(sorted, e, i + 1)

RECURSIVE sortLoop(_, _, _)
sortLoop(events, i, sorted) ==
    IF i > Len(events) THEN sorted
    ELSE sortLoop(events, i + 1, insertSorted(sorted, events[i], 1))

sort(events) == sortLoop(events, 1, <<>>)

\* eventsMap.get(dateStr) || []
eventsAt(eventsMap, dateStr) == IF dateStr \in DOMAIN eventsMap THEN eventsMap[dateStr] ELSE <<>>

\* what getDayEvents returns
getDayEvents(date, eventsMap) == sort(eventsAt(eventsMap, toDateString(date)))

\* events.sort works in place: the map after getDayEvents
sortedInPlace(eventsMap, dateStr) ==
    IF dateStr \in DOMAIN eventsMap
    THEN [eventsMap EXCEPT ![dateStr] = sort(@)]
    ELSE eventsMap

\* str.includes(searchString)
includes(str, searchString) ==
    \E i \in 1..(Len(str) - Len(searchString) + 1) :
        SubSeq(str, i, i + Len(searchString) - 1) = searchString

titleMatches_CaseSensitive(event, lowerQuery) == includes(event.title, lowerQuery)

\* the predicate of events.filter in filterEvents
titleMatches(event, lowerQuery) == includes(toLowerCase(event.title), lowerQuery)

matchingEvents(events, lowerQuery) == SelectSeq(events, LAMBDA event : titleMatches(event, lowerQuery))

filterEvents(eventsMap, query) ==
    IF trim(query) = <<>> THEN eventsMap
    ELSE [dateStr \in {k \in DOMAIN eventsMap :
                          Len(matchingEvents(eventsMap[k], toLowerCase(query))) > 0}
             |-> matchingEvents(eventsMap[dateStr], toLowerCase(query))]

-----------------------------------------------------------------------------
(* CalendarCore: the month grid *)

GridDays == 42

StartOffset_NoWeekStart(firstWeekday, weekStartsOn) == (firstWeekday + 7) % 7

StartOffset(firstWeekday, weekStartsOn) == (firstWeekday - weekStartsOn + 7) % 7

\* the element days.push adds for the date d
CalendarDay(d, month, eventsMap, sett, newDate) ==
    LET dateStr == toDateString(d)
        events == eventsAt(eventsMap, dateStr)
    IN  [date |-> d,
         dateStr |-> dateStr,
         isCurrentMonth |-> (getMonth(d) = month),
         isToday |-> isSameDay(d, newDate),
         isWeekend |-> isWeekend(d),
         weekNumber |-> getWeekNumber(d, sett.weekStartsOn),
         files |-> [j \in 1..Len(events) |-> events[j].file],
         events |-> events]

getDaysForMonth(currentMonth, eventsMap, sett, newDate) ==
    LET year == getFullYear(currentMonth)
        month == getMonth(currentMonth)
        firstDay == MakeDay(year, month, 1)
        startOffset == StartOffset(getDay(firstDay), sett.weekStartsOn)
        startDate == addDays(firstDay, 0 - startOffset)
    IN  [n \in 1..GridDays |->
            CalendarDay(addDays(startDate, n - 1), month, eventsMap, sett, newDate)]

getDaysForWeek(referenceDate, eventsMap, sett, newDate) ==
    LET startOffset == StartOffset(getDay(referenceDate), sett.weekStartsOn)
        startDate == addDays(referenceDate, 0 - startOffset)
    IN  [n \in 1..7 |->
            CalendarDay(addDays(startDate, n - 1), getMonth(referenceDate), eventsMap, sett,
                        newDate)]

\* days.slice(i, i + 7)
slice(arr, i, j) == SubSeq(arr, i + 1, IF j < Len(arr) THEN j ELSE Len(arr))

\* "weekDays[0].weekNumber || 0" (a week number is never 0) and the days of the
\* week
CalendarWeek(weekDays) == [weekNumber |-> weekDays[1].weekNumber, days |-> weekDays]

\* the loop "for (let i = 0; i < days.length; i += 7)" over the days
WeeksOf(arr) ==
    [w \in 1..((Len(arr) + 6) \div 7) |-> CalendarWeek(slice(arr, 7 * (w - 1), 7 * w))]

getWeeksForMonth(currentMonth, eventsMap, sett, newDate) ==
    WeeksOf(getDaysForMonth(currentMonth, eventsMap, sett, newDate))

-----------------------------------------------------------------------------
(* EventBus: the listeners of one event                                     *)
(* A listener is a record [seq, cb, once]: seq its place in the insertion   *)
(* order of the Set, cb what the callback does ("nothing", "throw", "emit": *)
(* it emits the same event), once: it is the wrapper that once() made.      *)

MaxDepth == 3

\* an emit before its first callback: the listeners it starts with, the callbacks
\* entered, the errors caught, and whether an error left emit
NoEmit == [before |-> {}, invoked |-> <<>>, caught |-> 0, escaped |-> FALSE]

\* callbacks.delete(callback)
off(listeners, e) == SelectSeq(listeners, LAMBDA l : l.seq # e.seq)

\* listeners.get(event).add(callback): a Set holds a function once
on(b, cb, once) ==
    IF ~once /\ \E i \in 1..Len(b.listeners) : b.listeners[i].cb = cb /\ ~b.listeners[i].once
    THEN b
    ELSE [b EXCEPT !.listeners = Append(@, [seq |-> b.registered + 1, cb |-> cb, once |-> once]),
                   !.registered = @ + 1,
                   !.onces = IF once THEN @ \cup {b.registered + 1} ELSE @]

onceRemoves_Never(e) == FALSE

\* the wrapper of once() starts with this.off(event, wrapper)
onceRemoves(e) == e.once

\* "catch (error) { console.error(...) }": the error stays inside emit
catch(b) == [b EXCEPT !.last.caught = @ + 1]

\* the callback is entered
Entered(b, e) == [b EXCEPT !.log = Append(@, e.seq), !.last.invoked = Append(@, e.seq)]

\* callbacks.forEach: the listeners are visited in insertion order, those
\* deleted before their turn are left out, those added meanwhile are visited
RECURSIVE forEach(_, _, _)
\* what the callback cb does once entered
Body(b, e, depth) ==
    CASE e.cb = "throw" -> catch(b)
      [] e.cb = "emit" -> IF depth < MaxDepth THEN forEach(b, 0, depth + 1) ELSE b
      [] OTHER -> b

\* try { callback(payload) } catch
Invoke(b, e, depth) ==
    Body(Entered(IF onceRemoves(e) THEN [b EXCEPT !.listeners = off(@, e)] ELSE b, e), e, depth)

Unvisited(b, cursor) == SelectSeq(b.listeners, LAMBDA l : l.seq > cursor)

forEach(b, cursor, depth) ==
    IF Len(Unvisited(b, cursor)) = 0 THEN b
    ELSE forEach(Invoke(b, Unvisited(b, cursor)[1], depth), Unvisited(b, cursor)[1].seq, depth)

emit(b) ==
    forEach([b EXCEPT !.emits = @ + 1,
                      !.last = [NoEmit EXCEPT !.before = {b.listeners[i].seq : i \in 1..Len(b.listeners)}]],
            0, 0)

-----------------------------------------------------------------------------
(* debounce(fn, delay)                                                      *)
(* A pending timeout is a record [due, args]: the clock value it is set for *)
(* and the arguments its callback hands to fn.                              *)

\* debounce(() => this.refreshCalendarView(), 300)
delay == 300

clearTimeout_Keep(pending) == pending

\* clearTimeout(timeoutId)
clearTimeout(pending) == {}

\* timeoutId = setTimeout(() => fn(...args), delay)
setTimeout(pending, clock, args) == pending \cup {[due |-> clock + delay, args |-> args]}

\* the function debounce returns, called with args; a call is the first of a
\* burst when delay ms or more have passed since the call before
debounced(tm, args) ==
    [tm EXCEPT !.pending = setTimeout(clearTimeout(@), tm.clock, args),
               !.calls = @ + 1,
               !.lastCallAt = tm.clock,
               !.lastArgs = args,
               !.bursts = IF tm.calls = 0 \/ tm.clock - tm.lastCallAt >= delay
                          THEN @ + 1 ELSE @]

\* the callback of the timeout p: fn(...args)
fired(tm, p) ==
    [tm EXCEPT !.pending = @ \ {p},
               !.runs = Append(@, [at |-> tm.clock, args |-> p.args,
                                   lastCallAt |-> tm.lastCallAt, lastArgs |-> tm.lastArgs])]

-----------------------------------------------------------------------------
(* inputs *)

MaxRange == 9

D(y, m, d) == MakeDay(y, m - 1, d)

Today == D(2025, 1, 15)

Anchors == {D(2025, 1, 6), D(2025, 1, 15), D(2025, 1, 31), D(2024, 2, 29), D(2024, 12, 30)}

\* anchors that lie more than maxIterations passes before the windows
FarAnchors == {D(2023, 1, 2), D(2010, 1, 4)}

EndDateStrs(a) ==
    IF a \in FarAnchors THEN {<<>>}
    ELSE {<<>>} \cup {toDateString(a + k) : k \in {0 - 1, 0, 2, MaxRange}}

Patterns == {"undefined", "none"} \cup Recurring

DaySets == {<<>>, <<1, 3, 5>>}

Windows ==
    {<<Undefined, Undefined>>,
     <<D(2025, 1, 1), D(2025, 1, 31)>>,
     <<D(2025, 1, 6), D(2025, 1, 19)>>,
     <<D(2025, 3, 1), D(2025, 3, 31)>>}

\* notes/standup.md
NoteFile ==
    [path |-> <<110, 111, 116, 101, 115, 47, 115, 116, 97, 110, 100, 117, 112, 46, 109, 100>>,
     basename |-> <<115, 116, 97, 110, 100, 117, 112>>]

Drafts ==
    UNION {{NewEvent(NoteFile, toDateString(a), e, <<48, 57, 58, 48, 48>>, "#e74c3c", p, ds) :
                e \in EndDateStrs(a), p \in Patterns, ds \in DaySets} : a \in Anchors \cup FarAnchors}

NoDraft == NewEvent(NoteFile, <<>>, <<>>, <<>>, "", "undefined", <<>>)

NoFilterSettings == [weekStartsOn |-> 1, tagFilter |-> <<>>, tagFilterMode |-> "any"]

Absent == [kind |-> "absent", items |-> <<>>]

Scalar(str) == [kind |-> "scalar", items |-> <<str>>]

Frontmatter(date, endDate, recurrence, tags) ==
    [date |-> date, endDate |-> endDate, time |-> <<>>, color |-> "",
     recurrence |-> recurrence, recurrenceDays |-> Absent, tags |-> tags]

File(name, frontmatter) ==
    [path |-> name, basename |-> name,
     cache |-> [exists |-> TRUE, hasFrontmatter |-> TRUE, tags |-> <<>>,
                frontmatter |-> frontmatter]]

CalendarTag == [kind |-> "array", items |-> <<<<99, 97, 108, 101, 110, 100, 97, 114>>>>]

\* meeting.md, time: "09:00"
Meeting ==
    File(<<109, 101, 101, 116, 105, 110, 103>>, [Frontmatter(Scalar(toDateString(D(2025, 1, 15))), Absent, Absent, CalendarTag)
                        EXCEPT !.time = <<48, 57, 58, 48, 48>>])

\* review.md, recurrence: Monthly
Review ==
    File(<<114, 101, 118, 105, 101, 119>>, Frontmatter(Scalar(toDateString(D(2025, 1, 6))), Absent,
                                 Scalar(<<77, 111, 110, 116, 104, 108, 121>>), Absent))

\* trip.md, three days
Trip ==
    File(<<116, 114, 105, 112>>, Frontmatter(Scalar(toDateString(D(2025, 1, 15))),
                             Scalar(toDateString(D(2025, 1, 17))), Absent, Absent))

\* readme.md, no date
Undated == File(<<114, 101, 97, 100, 109, 101>>, Frontmatter(Absent, Absent, Absent, CalendarTag))

\* broken.md, date: [2025-01-20, null]
Broken ==
    File(<<98, 114, 111, 107, 101, 110>>, Frontmatter([kind |-> "array",
                                items |-> <<toDateString(D(2025, 1, 20)), NullValue>>],
                               Absent, Absent, CalendarTag))

\* vaults, among them the empty one and one whose files yield no occurrence
Corpora == {<<>>, <<Review, Broken, Undated, Trip, Meeting>>}

SettingsSet ==
    {NoFilterSettings, [NoFilterSettings EXCEPT !.tagFilter = <<99, 97, 108, 101, 110, 100, 97, 114>>]}

CallWindows == {<<Undefined, Undefined>>, <<D(2025, 1, 1), D(2025, 1, 31)>>}

TickSteps == {4999, 5000}

ClockStart == 20000

MaxTicks == 5000

MaxReads == 3

GridFirstYear == 2023

GridLastYear == 2026

GridMaps ==
    {EmptyMap, Rebuild(<<Trip>>, Undefined, Undefined, Today, NoFilterSettings)}

NoGet ==
    [t |-> 0, rebuilt |-> FALSE, age |-> 0, since |-> {}, gap |-> 0 - 1, prevRebuilt |-> FALSE,
     window |-> <<Undefined, Undefined>>, result |-> EmptyMap]

\* no caller keeps a returned map
NoHeld ==
    [waiting |-> FALSE, taken |-> FALSE, map |-> EmptyMap, returned |-> EmptyMap,
     whole |-> FALSE, current |-> FALSE]

CacheIdle ==
    /\ now = 0 /\ files = <<>> /\ eventCache = EmptyMap /\ lastCacheUpdate = 0
    /\ reads = 0 /\ installedAt = 0 /\ installed = EmptyMap /\ since = {} /\ lastGet = NoGet
    /\ held = NoHeld

ExpandIdle ==
    /\ draft = NoDraft /\ window = <<Undefined, Undefined>> /\ out = EmptyMap /\ body = 0

NoView == [currentDate |-> 0, viewMode |-> "month"]

NoNav == [op |-> "none", from |-> 0, prevOp |-> "none", prevFrom |-> 0, calls |-> 0]

GridIdle == refDate = 0 /\ days = <<>> /\ view = NoView /\ nav = NoNav

NoCall == [op |-> "none"]

UtilIdle == call = NoCall /\ ret = <<>>

\* new EventBus(): no listener
NoBus == [listeners |-> <<>>, registered |-> 0, onces |-> {}, log |-> <<>>, emits |-> 0,
          last |-> NoEmit]

\* debounce(fn, delay) before its first call: no timeout pending
NoTimer ==
    [clock |-> 0, pending |-> {}, calls |-> 0, lastCallAt |-> 0, lastArgs |-> 0, bursts |-> 0,
     runs |-> <<>>]

PluginIdle == bus = NoBus /\ timer = NoTimer

-----------------------------------------------------------------------------
(* the expanders applied to one draft *)

InitExpand ==
    /\ phase = "init"
    /\ PluginIdle
    /\ today = Today
    /\ settings = NoFilterSettings
    /\ draft \in Drafts
    /\ window \in Windows
    /\ out = EmptyMap
    /\ body = 0
    /\ CacheIdle
    /\ GridIdle
    /\ UtilIdle

CallAddRecurringEvents ==
    /\ phase = "init"
    /\ \E r \in {addRecurringEvents(EmptyMap, draft, window[1], window[2], today)} :
          out' = r.map /\ body' = r.body
    /\ phase' = "addRecurringEvents"
    /\ UNCHANGED <<pluginVars, today, settings, draft, window, cacheVars, gridVars, utilVars>>

CallAddDateRangeEvents ==
    /\ phase = "init"
    /\ out' = addDateRangeEvents(EmptyMap, draft)
    /\ phase' = "addDateRangeEvents"
    /\ UNCHANGED <<pluginVars, today, settings, draft, window, body, cacheVars, gridVars, utilVars>>

CallRouteEvent ==
    /\ phase = "init"
    /\ \E r \in {RouteEvent([map |-> EmptyMap, body |-> 0], draft, window[1], window[2], today)} :
          out' = r.map /\ body' = r.body
    /\ phase' = "routed"
    /\ UNCHANGED <<pluginVars, today, settings, draft, window, cacheVars, gridVars, utilVars>>

NextExpand == CallAddRecurringEvents \/ CallAddDateRangeEvents \/ CallRouteEvent

SpecExpand == InitExpand /\ [][NextExpand]_vars

-----------------------------------------------------------------------------
(* the cache over time *)

InitCache ==
    /\ phase = "init"
    /\ PluginIdle
    /\ today = Today
    /\ settings = NoFilterSettings
    /\ now = ClockStart
    /\ files \in Corpora
    /\ eventCache = EmptyMap
    /\ lastCacheUpdate = 0
    /\ reads = 0
    /\ installedAt = 0
    /\ installed = EmptyMap
    /\ since = {}
    /\ lastGet = NoGet
    /\ held = NoHeld
    /\ ExpandIdle
    /\ GridIdle
    /\ UtilIdle

Tick ==
    /\ \E dt \in TickSteps :
          /\ now + dt <= ClockStart + MaxTicks
          /\ now' = now + dt
    /\ phase' = "tick"
    /\ UNCHANGED <<pluginVars, today, settings, files, eventCache, lastCacheUpdate, reads, installedAt, installed,
                   since, lastGet, held, expandVars, gridVars, utilVars>>

\* a file is created, changed or deleted in the vault
StoreChange ==
    /\ \E fs \in Corpora : fs # files /\ files' = fs
    /\ since' = since \cup {"store"}
    /\ phase' = "storeChange"
    /\ UNCHANGED <<pluginVars, today, settings, now, eventCache, lastCacheUpdate, reads, installedAt, installed,
                   lastGet, held, expandVars, gridVars, utilVars>>

\* this.eventCache.clear() empties the Map object itself, also for a caller
\* that holds it
Cleared(h) == IF h.whole /\ h.current THEN [h EXCEPT !.map = EmptyMap] ELSE h

invalidateCache ==
    /\ eventCache' = Invalidated(eventCache).eventCache
    /\ lastCacheUpdate' = Invalidated(eventCache).lastCacheUpdate
    /\ held' = Cleared(held)
    /\ since' = since \cup {"invalidate"}

CallInvalidateCache ==
    /\ invalidateCache
    /\ phase' = "invalidateCache"
    /\ UNCHANGED <<pluginVars, today, settings, now, files, reads, installedAt, installed, lastGet,
                   expandVars, gridVars, utilVars>>

updateSettings ==
    /\ \E sett \in SettingsSet : settings' = sett
    /\ invalidateCache
    /\ phase' = "updateSettings"
    /\ UNCHANGED <<pluginVars, today, now, files, reads, installedAt, installed, lastGet, expandVars, gridVars, utilVars>>

\* filterEventsForDateRange returns eventsMap itself when a bound is missing
Taken(result, w) ==
    [waiting |-> FALSE, taken |-> TRUE, map |-> result, returned |-> result,
     whole |-> (w[1] = Undefined \/ w[2] = Undefined), current |-> TRUE]

\* "this.eventCache = eventsWithDates": the index a held map came from is no
\* longer the one in eventCache
Replaced(h) == [h EXCEPT !.current = FALSE]

\* getEventsWithDates(w[1], w[2])
GetEvents(w) ==
    /\ reads < MaxReads
    /\    LET hit == CacheValid(eventCache, now, lastCacheUpdate)
              eventsWithDates == Rebuild(files, w[1], w[2], today, settings)
              info == [t |-> now, rebuilt |-> ~hit, age |-> now - installedAt, since |-> since,
                       gap |-> IF lastGet = NoGet THEN 0 - 1 ELSE now - lastGet.t,
                       prevRebuilt |-> lastGet.rebuilt, window |-> w]
          IN  IF hit
              THEN /\ lastGet' = info @@ [result |->
                                             filterEventsForDateRange(eventCache, w[1], w[2])]
                   /\ held' = IF ~held.waiting THEN held
                              ELSE Taken(filterEventsForDateRange(eventCache, w[1], w[2]), w)
                   /\ UNCHANGED <<eventCache, lastCacheUpdate, reads, installedAt, installed>>
              ELSE /\ reads' = reads + 1
                   /\ eventCache' = eventsWithDates
                   /\ lastCacheUpdate' = now
                   /\ installedAt' = now
                   /\ installed' = eventsWithDates
                   /\ lastGet' = info @@ [result |->
                                             filterEventsForDateRange(eventsWithDates, w[1], w[2])]
                   /\ held' = IF ~held.waiting THEN Replaced(held)
                              ELSE Taken(filterEventsForDateRange(eventsWithDates, w[1], w[2]), w)
    /\ since' = {}
    /\ phase' = "get"
    /\ UNCHANGED <<pluginVars, today, settings, now, files, expandVars, gridVars, utilVars>>

getEventsWithDates == \E w \in CallWindows : GetEvents(w)

NextCache ==
    \/ Tick
    \/ StoreChange
    \/ CallInvalidateCache
    \/ updateSettings
    \/ getEventsWithDates

SpecCache == InitCache /\ [][NextCache]_vars

-----------------------------------------------------------------------------
(* a caller that keeps the map of its first getEventsWithDates call *)

InitHold ==
    /\ phase = "init"
    /\ PluginIdle
    /\ today = Today
    /\ settings = NoFilterSettings
    /\ now = ClockStart
    /\ files \in Corpora
    /\ eventCache = EmptyMap
    /\ lastCacheUpdate = 0
    /\ reads = 0
    /\ installedAt = 0
    /\ installed = EmptyMap
    /\ since = {}
    /\ lastGet = NoGet
    /\ held = [NoHeld EXCEPT !.waiting = TRUE]
    /\ ExpandIdle
    /\ GridIdle
    /\ UtilIdle

NextHold ==
    \/ getEventsWithDates
    \/ CallInvalidateCache
    \/ updateSettings

SpecHold == InitHold /\ [][NextHold]_vars

-----------------------------------------------------------------------------
(* the month grid of a reference date *)

InitGrid ==
    /\ phase = "init"
    /\ PluginIdle
    /\ today = Today
    /\ settings \in {[NoFilterSettings EXCEPT !.weekStartsOn = ws] : ws \in {0, 1}}
    /\ refDate \in {MakeDay(y, m, d) : y \in GridFirstYear..GridLastYear, m \in 0..11, d \in {1, 31}}
    /\ days = <<>>
    /\ view = NoView /\ nav = NoNav
    /\ out \in GridMaps
    /\ draft = NoDraft /\ window = <<Undefined, Undefined>> /\ body = 0
    /\ CacheIdle
    /\ UtilIdle

CallGetDaysForMonth ==
    /\ phase = "init"
    /\ days' = getDaysForMonth(refDate, out, settings, today)
    /\ phase' = "getDaysForMonth"
    /\ UNCHANGED <<pluginVars, today, settings, refDate, view, nav, cacheVars, expandVars, utilVars>>

CallGetWeeksForMonth ==
    /\ phase = "init"
    /\ days' = getDaysForMonth(refDate, out, settings, today)
    /\ ret' = getWeeksForMonth(refDate, out, settings, today)
    /\ phase' = "getWeeksForMonth"
    /\ UNCHANGED <<pluginVars, today, settings, refDate, view, nav, cacheVars, expandVars, call>>

NextGrid == CallGetDaysForMonth \/ CallGetWeeksForMonth

SpecGrid == InitGrid /\ [][NextGrid]_vars

-----------------------------------------------------------------------------
(* the navigation of the calendar view *)

MaxNav == 3

\* the days the view is opened on
NavDays ==
    {D(2024, 1, 15), D(2024, 1, 29), D(2024, 1, 30), D(2024, 1, 31), D(2024, 2, 29),
     D(2024, 3, 31), D(2024, 5, 31), D(2024, 8, 31), D(2024, 12, 15), D(2024, 12, 31),
     D(2025, 1, 28), D(2025, 1, 31)}

\* the constructor: currentDate = new Date(), viewMode = settings.defaultView
InitNav ==
    /\ phase = "init"
    /\ PluginIdle
    /\ today \in NavDays
    /\ settings = NoFilterSettings
    /\ view \in {[currentDate |-> today, viewMode |-> mode] : mode \in {"month", "week"}}
    /\ nav = NoNav
    /\ refDate = 0 /\ days = <<>>
    /\ CacheIdle
    /\ ExpandIdle
    /\ UtilIdle

\* render(): the days the view shows for currentDate, taken from
\* getWeeksForMonth or getDaysForWeek with the view's filesMap (empty here)
render(currentDate, viewMode) ==
    /\ refDate' = currentDate
    /\ days' = IF viewMode = "month"
               THEN getDaysForMonth(currentDate, EmptyMap, settings, today)
               ELSE getDaysForWeek(currentDate, EmptyMap, settings, today)

Navigated(op) ==
    [op |-> op, from |-> view.currentDate, prevOp |-> nav.op, prevFrom |-> nav.from,
     calls |-> nav.calls + 1]

goToToday ==
    /\ nav.calls < MaxNav
    /\ view' = [view EXCEPT !.currentDate = today]
    /\ render(today, view.viewMode)
    /\ nav' = Navigated("today")
    /\ phase' = "goToToday"
    /\ UNCHANGED <<pluginVars, today, settings, cacheVars, expandVars, utilVars>>

navigatePrevious ==
    /\ nav.calls < MaxNav
    /\ \E d \in {IF view.viewMode = "month" THEN addMonths(view.currentDate, 0 - 1)
                  ELSE addDays(view.currentDate, 0 - 7)} :
          /\ view' = [view EXCEPT !.currentDate = d]
          /\ render(d, view.viewMode)
    /\ nav' = Navigated("previous")
    /\ phase' = "navigatePrevious"
    /\ UNCHANGED <<pluginVars, today, settings, cacheVars, expandVars, utilVars>>

navigateNext ==
    /\ nav.calls < MaxNav
    /\ \E d \in {IF view.viewMode = "month" THEN addMonths(view.currentDate, 1)
                  ELSE addDays(view.currentDate, 7)} :
          /\ view' = [view EXCEPT !.currentDate = d]
          /\ render(d, view.viewMode)
    /\ nav' = Navigated("next")
    /\ phase' = "navigateNext"
    /\ UNCHANGED <<pluginVars, today, settings, cacheVars, expandVars, utilVars>>

NextNav == goToToday \/ navigatePrevious \/ navigateNext

SpecNav == InitNav /\ [][NextNav]_vars

-----------------------------------------------------------------------------
(* the EventBus with callbacks registered, removed and called *)

MaxListeners == 3

MaxEmits == 3

InitBus ==
    /\ phase = "init"
    /\ today = Today
    /\ settings = NoFilterSettings
    /\ bus = NoBus
    /\ timer = NoTimer
    /\ CacheIdle
    /\ ExpandIdle
    /\ GridIdle
    /\ UtilIdle

\* on(event, callback)
CallOn ==
    /\ bus.registered < MaxListeners
    /\ \E cb \in {"nothing", "throw"} : bus' = on(bus, cb, FALSE)
    /\ phase' = "on"
    /\ UNCHANGED <<timer, today, settings, cacheVars, expandVars, gridVars, utilVars>>

\* once(event, callback): a callback that emits the event again does so only
\* when registered with once
CallOnce ==
    /\ bus.registered < MaxListeners
    /\ \E cb \in {"nothing", "throw", "emit"} : bus' = on(bus, cb, TRUE)
    /\ phase' = "once"
    /\ UNCHANGED <<timer, today, settings, cacheVars, expandVars, gridVars, utilVars>>

\* off(event, callback), also through the function that on and once return
CallOff ==
    /\ \E i \in 1..Len(bus.listeners) :
          bus' = [bus EXCEPT !.listeners = off(@, bus.listeners[i])]
    /\ phase' = "off"
    /\ UNCHANGED <<timer, today, settings, cacheVars, expandVars, gridVars, utilVars>>

\* emit(event, payload)
CallEmit ==
    /\ bus.emits < MaxEmits
    /\ bus' = emit(bus)
    /\ phase' = "emit"
    /\ UNCHANGED <<timer, today, settings, cacheVars, expandVars, gridVars, utilVars>>

NextBus == CallOn \/ CallOnce \/ CallOff \/ CallEmit

SpecBus == InitBus /\ [][NextBus]_vars

-----------------------------------------------------------------------------
(* a debounced function called over time *)

MaxClock == 1200

MaxCalls == 4

\* ms between two events
Pauses == {100, 299}

InitDebounce ==
    /\ phase = "init"
    /\ today = Today
    /\ settings = NoFilterSettings
    /\ bus = NoBus
    /\ timer = NoTimer
    /\ CacheIdle
    /\ ExpandIdle
    /\ GridIdle
    /\ UtilIdle

\* a timeout runs when the clock reaches the time it is set for
Due == {p \in timer.pending : timer.clock >= p.due}

\* time passes, up to the next timeout
Pass ==
    /\ \E dt \in Pauses \cup {p.due - timer.clock : p \in timer.pending} :
          /\ dt > 0
          /\ timer.clock + dt <= MaxClock
          /\ \A p \in timer.pending : timer.clock + dt <= p.due
          /\ timer' = [timer EXCEPT !.clock = @ + dt]
    /\ phase' = "pass"
    /\ UNCHANGED <<bus, today, settings, cacheVars, expandVars, gridVars, utilVars>>

\* a file event calls the debounced function; a timeout that is due has run
\* before an event of that time or later is handled
CallDebounced ==
    /\ timer.calls < MaxCalls
    /\ Due = {}
    /\ \E args \in {1, 2} : timer' = debounced(timer, args)
    /\ phase' = "debounced"
    /\ UNCHANGED <<bus, today, settings, cacheVars, expandVars, gridVars, utilVars>>

TimeoutFires ==
    /\ \E p \in Due : timer' = fired(timer, p)
    /\ phase' = "timeout"
    /\ UNCHANGED <<bus, today, settings, cacheVars, expandVars, gridVars, utilVars>>

NextDebounce == Pass \/ CallDebounced \/ TimeoutFires

SpecDebounce == InitDebounce /\ [][NextDebounce]_vars

-----------------------------------------------------------------------------
(* a view asking for events within one lifetime of the cache *)

\* the windows a view asks for: none, January 2025, and everything up to the
\* end of January 2025
ViewWindows == CallWindows \cup {<<D(999, 1, 1), D(2025, 1, 31)>>}

ViewEvents == \E w \in ViewWindows : GetEvents(w)

\* the days a view shows the events of
ViewDates == {Today, Today + 1, Today + 5}

\* getDayEvents on the map the last getEventsWithDates call returned: that map
\* is the index itself or a filtered map holding the arrays of the index, and
\* events.sort works on the array
ViewDayEvents ==
    /\ lastGet # NoGet
    /\ \E date \in ViewDates :
          /\ ret' = getDayEvents(date, lastGet.result)
          /\ lastGet' = [lastGet EXCEPT !.result = sortedInPlace(@, toDateString(date))]
          /\ eventCache' = IF toDateString(date) \in DOMAIN lastGet.result
                           THEN sortedInPlace(eventCache, toDateString(date))
                           ELSE eventCache
          /\ held' = IF held.current /\ toDateString(date) \in DOMAIN lastGet.result
                     THEN [held EXCEPT !.map = sortedInPlace(@, toDateString(date))]
                     ELSE held
          /\ call' = [op |-> "getDayEvents", date |-> date, eventsMap |-> lastGet.result]
    /\ phase' = "getDayEvents"
    /\ UNCHANGED <<pluginVars, today, settings, now, files, lastCacheUpdate, reads, installedAt, installed,
                   since, expandVars, gridVars>>

ViewFilterEvents ==
    /\ lastGet # NoGet
    /\ \E query \in {<<116, 114, 105, 112>>, <<>>} :
          /\ ret' = filterEvents(lastGet.result, query)
          /\ call' = [op |-> "filterEvents", eventsMap |-> lastGet.result, query |-> query]
    /\ phase' = "filterEvents"
    /\ UNCHANGED <<pluginVars, today, settings, cacheVars, expandVars, gridVars>>

ViewDaysForMonth ==
    /\ lastGet # NoGet
    /\ days' = getDaysForMonth(today, lastGet.result, settings, today)
    /\ refDate' = today
    /\ phase' = "getDaysForMonth"
    /\ UNCHANGED <<pluginVars, today, settings, view, nav, cacheVars, expandVars, utilVars>>

NextView ==
    \/ ViewEvents
    \/ ViewDayEvents
    \/ ViewFilterEvents
    \/ ViewDaysForMonth

SpecView == InitCache /\ [][NextView]_vars

-----------------------------------------------------------------------------
(* the utility functions, each applied to one set of arguments *)

\* settings.tagFilter values: "", " ", ", ,", "calendar", "calendar, meeting",
\* " meeting  calendar ", "cal", "#calendar"
TagFilters ==
    {<<>>, <<32>>, <<44, 32, 44>>, <<99, 97, 108, 101, 110, 100, 97, 114>>, <<99, 97, 108, 101, 110, 100, 97, 114, 44, 32, 109, 101, 101, 116, 105, 110, 103>>,
     <<32, 109, 101, 101, 116, 105, 110, 103, 32, 32, 99, 97, 108, 101, 110, 100, 97, 114, 32>>, <<99, 97, 108>>, <<35, 99, 97, 108, 101, 110, 100, 97, 114>>}

\* inline tags as the metadata cache lists them: "#calendar", "#meeting",
\* "#calendar/work", "#Calendar"
InlineTags ==
    {<<>>, <<<<35, 99, 97, 108, 101, 110, 100, 97, 114>>>>, <<<<35, 109, 101, 101, 116, 105, 110, 103>>>>, <<<<35, 99, 97, 108, 101, 110, 100, 97, 114, 47, 119, 111, 114, 107>>>>,
     <<<<35, 109, 101, 101, 116, 105, 110, 103>>, <<35, 99, 97, 108, 101, 110, 100, 97, 114>>>>, <<<<35, 67, 97, 108, 101, 110, 100, 97, 114>>>>}

\* frontmatter tags: none, [calendar], "meeting", [calendars, meeting]
FrontmatterTags ==
    {Absent, CalendarTag, Scalar(<<109, 101, 101, 116, 105, 110, 103>>),
     [kind |-> "array", items |-> <<<<99, 97, 108, 101, 110, 100, 97, 114, 115>>, <<109, 101, 101, 116, 105, 110, 103>>>>]}

TagCalls ==
    {[op |-> "hasRequiredTags",
      cache |-> [exists |-> TRUE, hasFrontmatter |-> fm # Absent, tags |-> inline,
                 frontmatter |-> Frontmatter(Absent, Absent, Absent, fm)],
      settings |-> [NoFilterSettings EXCEPT !.tagFilter = f, !.tagFilterMode = mode]] :
        f \in TagFilters, mode \in {"any", "all"}, inline \in InlineTags, fm \in FrontmatterTags}

DaysInMonth(y, m) == MonthStart(y + (m \div 12), m % 12) - MonthStart(y, m - 1)

\* the date string a note holds for year y, month m (1..12) and day d, each
\* field with its leading zeros
Digits(n, width) == [i \in 1..width |-> 48 + ((n \div (10 ^ (width - i))) % 10)]

DateString(y, m, d) == Digits(y, 4) \o <<45>> \o Digits(m, 2) \o <<45>> \o Digits(d, 2)

\* valid dates in YYYY-MM-DD form
ValidDateStrings ==
    {DateString(y, m, d) : <<y, m, d>> \in
        {ymd \in {999, 1000, 2024, 2025, 9999} \X (1..12) \X {1, 9, 28, 29, 30, 31} :
            ymd[3] <= DaysInMonth(ymd[1], ymd[2])}}

\* what a date property can hold besides: "", "2025-13-01", "2025-1-5",
\* "2025-02-30", "tomorrow"
OtherDateStrings ==
    {<<>>, <<50, 48, 50, 53, 45, 49, 51, 45, 48, 49>>, <<50, 48, 50, 53, 45, 49, 45, 53>>, <<50, 48, 50, 53, 45, 48, 50, 45, 51, 48>>, <<116, 111, 109, 111, 114, 114, 111, 119>>}

RoundTripCalls == {[op |-> "roundTrip", s |-> str] : str \in ValidDateStrings}

NormalizeCalls ==
    {[op |-> "normalizeDate", s |-> str] : str \in ValidDateStrings \cup OtherDateStrings}

WeekFirstYear == 2015

WeekLastYear == 2033

\* the days of December and January and every fifth day of the years between
WeekDates ==
    {d \in D(WeekFirstYear, 1, 1)..D(WeekLastYear, 1, 31) : getMonth(d) \in {0, 11} \/ d % 5 = 0}

WeekCalls ==
    {[op |-> "getWeekNumber", date |-> d, weekStartsOn |-> ws] : d \in WeekDates, ws \in {0, 1}}

\* settings.dateFormat: "MMMM", "MMM", "dddd", "ddd", "YYYY-MM-DD", "M/D/YY",
\* "dddd, MMMM D, YYYY", "DD.MM.YYYY"
Formats ==
    {<<77, 77, 77, 77>>, <<77, 77, 77>>, <<100, 100, 100, 100>>, <<100, 100, 100>>, <<89, 89, 89, 89, 45, 77, 77, 45, 68, 68>>, <<77, 47, 68, 47, 89, 89>>,
     <<100, 100, 100, 100, 44, 32, 77, 77, 77, 77, 32, 68, 44, 32, 89, 89, 89, 89>>, <<68, 68, 46, 77, 77, 46, 89, 89, 89, 89>>}

\* the 5th of every month of 2025 and the week from 2025-01-12 to 2025-01-18
FormatDates == {D(2025, m, 5) : m \in 1..12} \cup (D(2025, 1, 12)..D(2025, 1, 18))

FormatCalls ==
    {[op |-> "formatDate", date |-> d, format |-> f] : d \in FormatDates, f \in Formats}

MaxDayEvents == 3

\* time properties: none, "09:00", "14:30", "2:30 PM", "9:00", "12:05 AM",
\* "14:30:59", "noon", "25:00"
Times ==
    {<<>>, <<48, 57, 58, 48, 48>>, <<49, 52, 58, 51, 48>>, <<50, 58, 51, 48, 32, 80, 77>>, <<57, 58, 48, 48>>, <<49, 50, 58, 48, 53, 32, 65, 77>>,
     <<49, 52, 58, 51, 48, 58, 53, 57>>, <<110, 111, 111, 110>>, <<50, 53, 58, 48, 48>>}

\* the i-th occurrence stored under a date, of the note "note<i>"
TimedEvent(i, dateStr, time) ==
    NewEvent([path |-> <<110, 111, 116, 101, 48 + i>>, basename |-> <<110, 111, 116, 101, 48 + i>>],
             dateStr, <<>>, time, "", "undefined", <<>>)

\* the occurrences of one day, in index order
DayLists(dateStr) ==
    UNION {{[i \in 1..n |-> TimedEvent(i, dateStr, times[i])] : times \in [1..n -> Times]} :
              n \in 0..MaxDayEvents}

DayEventsCalls ==
    {[op |-> "getDayEvents", date |-> Today,
      eventsMap |-> (toDateString(Today) :> events)] : events \in DayLists(toDateString(Today))}
    \cup {[op |-> "getDayEvents", date |-> Today + 1,
            eventsMap |-> (toDateString(Today) :> events)] :
              events \in {<<TimedEvent(1, toDateString(Today), <<>>)>>}}

\* search queries: "", "  ", "meet", "MEET", "team ", " meet", "xyz"
Queries ==
    {<<>>, <<32, 32>>, <<109, 101, 101, 116>>, <<77, 69, 69, 84>>, <<116, 101, 97, 109, 32>>, <<32, 109, 101, 101, 116>>, <<120, 121, 122>>}

\* note titles: "Team Meeting", "standup", "Meetup"
Titles == {<<84, 101, 97, 109, 32, 77, 101, 101, 116, 105, 110, 103>>, <<115, 116, 97, 110, 100, 117, 112>>, <<77, 101, 101, 116, 117, 112>>}

TitledEvent(title, dateStr) ==
    NewEvent([path |-> title, basename |-> title], dateStr, <<>>, <<>>, "", "undefined", <<>>)

\* lists of one or two occurrences of a date
TitledLists(dateStr) ==
    {<<TitledEvent(a, dateStr)>> : a \in Titles}
    \cup {<<TitledEvent(a, dateStr), TitledEvent(b, dateStr)>> : a \in Titles, b \in Titles}

\* indexes of up to two dates
TitledMaps ==
    {EmptyMap}
    \cup {toDateString(Today) :> l : l \in TitledLists(toDateString(Today))}
    \cup {(toDateString(Today) :> l1) @@ (toDateString(Today + 1) :> l2) :
              l1 \in TitledLists(toDateString(Today)), l2 \in TitledLists(toDateString(Today + 1))}

FilterCalls ==
    {[op |-> "filterEvents", eventsMap |-> m, query |-> q] : m \in TitledMaps, q \in Queries}

MaxDates == 3

\* elements of a date array: 2025-01-15, 2025-01-06, "tomorrow", "", null
DateItems ==
    {toDateString(D(2025, 1, 15)), toDateString(D(2025, 1, 6)),
     <<116, 111, 109, 111, 114, 114, 111, 119>>, <<>>, NullValue}

DateArrays == UNION {[1..n -> DateItems] : n \in 0..MaxDates}

DateValues ==
    {Absent} \cup {Scalar(d) : d \in DateItems \ {<<>>, NullValue}}
        \cup {[kind |-> "array", items |-> a] : a \in DateArrays}

\* endDate: 2025-01-17, time: "09:00", color: "#e74c3c", recurrence: Weekly,
\* recurrenceDays: [mon, fri]
FullFrontmatter(date) ==
    [date |-> date, endDate |-> Scalar(toDateString(D(2025, 1, 17))),
     time |-> <<48, 57, 58, 48, 48>>, color |-> "#e74c3c",
     recurrence |-> Scalar(<<87, 101, 101, 107, 108, 121>>),
     recurrenceDays |-> [kind |-> "array", items |-> <<<<109, 111, 110>>, <<102, 114, 105>>>>],
     tags |-> Absent]

DatedFiles ==
    {File(<<112, 108, 97, 105, 110>>, Frontmatter(date, Absent, Absent, Absent)) : date \in DateValues}
        \cup {File(<<102, 117, 108, 108>>, FullFrontmatter(date)) : date \in DateValues}

ExtractCalls == {[op |-> "createEventsFromFile", file |-> f] : f \in DatedFiles}

\* endDate: absent, "tomorrow", the date itself, two days after it, the day
\* before it
EndDateValues ==
    {Absent, Scalar(<<116, 111, 109, 111, 114, 114, 111, 119>>)}
        \cup {Scalar(toDateString(Today + k)) : k \in {0, 2, 0 - 1}}

\* notes dated 2025-01-15 without recurrence (or with recurrence: none)
RangedFiles ==
    {File(<<115, 116, 97, 121>>, Frontmatter(Scalar(toDateString(Today)), e, r, tags)) :
        e \in EndDateValues, r \in {Absent, Scalar(<<110, 111, 110, 101>>)}, tags \in {Absent, CalendarTag}}

\* a rebuild over a vault of one note
RebuildCalls ==
    {[op |-> "rebuild", file |-> f, settings |-> sett, window |-> w] :
        f \in RangedFiles, sett \in SettingsSet, w \in Windows}

Calls ==
    TagCalls \cup RoundTripCalls \cup NormalizeCalls \cup WeekCalls \cup FormatCalls
        \cup DayEventsCalls \cup FilterCalls \cup ExtractCalls \cup RebuildCalls

InitUtil ==
    /\ phase = "init"
    /\ PluginIdle
    /\ today = Today
    /\ settings = NoFilterSettings
    /\ call \in Calls
    /\ ret = <<>>
    /\ CacheIdle
    /\ ExpandIdle
    /\ GridIdle

CallHasRequiredTags ==
    /\ phase = "init"
    /\ call.op = "hasRequiredTags"
    /\ ret' = hasRequiredTags(call.cache, call.settings)
    /\ phase' = "returned"
    /\ UNCHANGED <<pluginVars, today, settings, call, cacheVars, expandVars, gridVars>>

\* toDateString(fromDateString(s))
CallRoundTrip ==
    /\ phase = "init"
    /\ call.op = "roundTrip"
    /\ ret' = toDateString(fromDateString(call.s))
    /\ phase' = "returned"
    /\ UNCHANGED <<pluginVars, today, settings, call, cacheVars, expandVars, gridVars>>

CallNormalizeDate ==
    /\ phase = "init"
    /\ call.op = "normalizeDate"
    /\ ret' = normalizeDate(call.s)
    /\ phase' = "returned"
    /\ UNCHANGED <<pluginVars, today, settings, call, cacheVars, expandVars, gridVars>>

CallGetWeekNumber ==
    /\ phase = "init"
    /\ call.op = "getWeekNumber"
    /\ ret' = getWeekNumber(call.date, call.weekStartsOn)
    /\ phase' = "returned"
    /\ UNCHANGED <<pluginVars, today, settings, call, cacheVars, expandVars, gridVars>>

CallFormatDate ==
    /\ phase = "init"
    /\ call.op = "formatDate"
    /\ ret' = formatDate(call.date, call.format)
    /\ phase' = "returned"
    /\ UNCHANGED <<pluginVars, today, settings, call, cacheVars, expandVars, gridVars>>

CallGetDayEvents ==
    /\ phase = "init"
    /\ call.op = "getDayEvents"
    /\ ret' = getDayEvents(call.date, call.eventsMap)
    /\ out' = sortedInPlace(call.eventsMap, toDateString(call.date))
    /\ phase' = "returned"
    /\ UNCHANGED <<pluginVars, today, settings, call, draft, window, body, cacheVars, gridVars>>

\* out is the map handed in, after the call
CallFilterEvents ==
    /\ phase = "init"
    /\ call.op = "filterEvents"
    /\ ret' = filterEvents(call.eventsMap, call.query)
    /\ out' = call.eventsMap
    /\ phase' = "returned"
    /\ UNCHANGED <<pluginVars, today, settings, call, draft, window, body, cacheVars, gridVars>>

\* createEventsFromFile as the try block of getEventsWithDates calls it: threw
\* tells that it left through the catch
CallCreateEventsFromFile ==
    /\ phase = "init"
    /\ call.op = "createEventsFromFile"
    /\ ret' = [threw |-> createEventsFromFileThrows(call.file.cache),
               events |-> IF createEventsFromFileThrows(call.file.cache) THEN <<>>
                          ELSE createEventsFromFile(call.file, call.file.cache)]
    /\ phase' = "returned"
    /\ UNCHANGED <<pluginVars, today, settings, call, cacheVars, expandVars, gridVars>>

\* the index getEventsWithDates builds from a vault that holds call.file
CallRebuild ==
    /\ phase = "init"
    /\ call.op = "rebuild"
    /\ ret' = Rebuild(<<call.file>>, call.window[1], call.window[2], today, call.settings)
    /\ phase' = "returned"
    /\ UNCHANGED <<pluginVars, today, settings, call, cacheVars, expandVars, gridVars>>

NextUtil ==
    \/ CallHasRequiredTags
    \/ CallRoundTrip
    \/ CallNormalizeDate
    \/ CallGetWeekNumber
    \/ CallFormatDate
    \/ CallGetDayEvents
    \/ CallFilterEvents
    \/ CallCreateEventsFromFile
    \/ CallRebuild

SpecUtil == InitUtil /\ [][NextUtil]_vars

-----------------------------------------------------------------------------
(* Properties of the cache, checked under SpecCache *)

\* C1: of two getEventsWithDates calls less than 5000 ms apart with no
\* invalidateCache, updateSettings or store change between them, only one reads
\* the document store (when the first rebuilt, the second does not read it
\* again), whatever the corpus yields; and a call made once the TTL has elapsed
\* since the last rebuild reads the store again.
C1_SingleRead ==
    /\ (/\ phase = "get"
        /\ lastGet.gap >= 0 /\ lastGet.gap < 5000
        /\ lastGet.since = {}
        /\ lastGet.prevRebuilt)
           => ~lastGet.rebuilt
    /\ (phase = "get" /\ lastGet.age >= 5000) => lastGet.rebuilt

\* C2: an index served without rebuilding was installed by a rebuild less than
\* 5000 ms ago, and it is the rebuild the cache's timestamp names; at an age of
\* 5000 ms or more the call rebuilds.
C2_NeverStale ==
    phase = "get" =>
        /\ ~lastGet.rebuilt => (lastGet.age < 5000 /\ lastCacheUpdate = installedAt)
        /\ lastGet.age >= 5000 => lastGet.rebuilt

\* a call exactly 5000 ms after the rebuild of a non-empty index, nothing in between
C2_RebuildAtTTL ==
    /\ phase = "get"
    /\ lastGet.rebuilt
    /\ lastGet.age = 5000
    /\ lastGet.gap = 5000 /\ lastGet.prevRebuilt
    /\ lastGet.since = {}
    /\ size(eventCache) > 0

\* C3: after invalidateCache or updateSettings the cache is empty with timestamp
\* 0, and the next getEventsWithDates call rebuilds, however recent the last
\* rebuild is.
C3_InvalidateForcesRebuild ==
    /\ phase \in {"invalidateCache", "updateSettings"} =>
           (size(eventCache) = 0 /\ lastCacheUpdate = 0)
    /\ (phase = "get" /\ "invalidate" \in lastGet.since) => lastGet.rebuilt

\* a rebuild in the same millisecond as the previous one, forced by an invalidation
C3_RebuildAfterInvalidate ==
    /\ phase = "get"
    /\ lastGet.since = {"invalidate"}
    /\ lastGet.rebuilt
    /\ lastGet.prevRebuilt /\ lastGet.gap = 0 /\ lastGet.age = 0
    /\ size(eventCache) > 0

\* C18: a rebuild during which the processing of a document throws completes:
\* the index it installs holds the occurrences of all the other documents (it
\* is the index of the corpus without the throwing documents), and the cache
\* holds that index with the time of the call as its timestamp.
C18_FailSoft ==
    (phase = "get" /\ lastGet.rebuilt) =>
        /\ eventCache =
              Rebuild(SelectSeq(files, LAMBDA f : ~toStringThrows(f.cache.frontmatter.date)),
                      lastGet.window[1], lastGet.window[2], today, settings)
        /\ lastCacheUpdate = now /\ lastGet.t = now

\* a rebuild over a vault with the throwing note between the others, with the
\* tag filter that lets the throwing note through
C18_BrokenSkipped ==
    /\ phase = "get" /\ lastGet.rebuilt
    /\ settings.tagFilter # <<>>
    /\ \E i \in 1..Len(files) : files[i] = Broken /\ i > 1 /\ i < Len(files)
    /\ toDateString(D(2025, 1, 15)) \in DOMAIN eventCache
    /\ toDateString(D(2025, 1, 20)) \notin DOMAIN eventCache

-----------------------------------------------------------------------------
(* Properties of the views, checked under SpecView *)

\* the days the keys of the index can name
KeyDates == D(2024, 12, 1)..D(2026, 2, 1)

KeyTable == {<<toDateString(d), d>> : d \in KeyDates}

\* the day a key of the index names
DateOfKey(k) == (CHOOSE p \in KeyTable : p[1] = k)[2]

\* C17: with a window given, getEventsWithDates returns exactly the entries of
\* the index whose date lies in [windowStart, windowEnd] (the comparison of the
\* date strings agrees with the order of the dates); without a window it
\* returns the full index.
C17_WindowFilter ==
    phase = "get" =>
        IF lastGet.window[1] = Undefined
        THEN lastGet.result = eventCache
        ELSE /\ DOMAIN lastGet.result =
                   {k \in DOMAIN eventCache :
                       lastGet.window[1] <= DateOfKey(k) /\ DateOfKey(k) <= lastGet.window[2]}
             /\ \A k \in DOMAIN lastGet.result : lastGet.result[k] = eventCache[k]

\* C19: whatever getEventsWithDates calls and calls of getDayEvents,
\* getDaysForMonth and filterEvents on the returned maps a view makes within one
\* lifetime of the cache, every date's occurrences in the cache are those the
\* rebuild installed, in the same order.
C19_CacheUntouched == eventCache = installed

\* what getEventsWithDates(w[1], w[2]) returns when it rebuilds now
FreshResult(w) ==
    filterEventsForDateRange(Rebuild(files, w[1], w[2], today, settings), w[1], w[2])

\* C23: for every window, what getEventsWithDates returns from a cache that is
\* still valid equals what a rebuild called with that window would return; the
\* occurrences of a recurring event inside the window are there also when the
\* cache was built by a call with another window or with none.
C23_CacheTransparent ==
    (phase = "get" /\ ~lastGet.rebuilt) => lastGet.result = FreshResult(lastGet.window)

-----------------------------------------------------------------------------
(* Properties of a kept map, checked under SpecHold *)

\* C24: a map that getEventsWithDates returned keeps its entries: a later
\* invalidateCache, updateSettings or rebuild adds no entry to it, removes none
\* and empties none, whether the map was asked for with a window or without.
C24_ReturnedMapKept ==
    held.taken =>
        /\ DOMAIN held.map = DOMAIN held.returned
        /\ \A k \in DOMAIN held.map : Range(held.map[k]) = Range(held.returned[k])

-----------------------------------------------------------------------------
(* Properties of the expanders, checked under SpecExpand *)

Anchor == fromDateString(draft.dateStr)

HasWindow == window[1] # Undefined /\ window[2] # Undefined

WindowEnd == IF window[2] # Undefined THEN window[2] ELSE addMonths(today, 12)

DateStrs(dates) == {toDateString(d) : d \in dates}

OncePerDate == \A k \in DOMAIN out : Len(out[k]) = 1

\* C4: the loop body of addRecurringEvents runs at most 730 times for every
\* anchor, pattern and window, and exactly once (not at all when the anchor lies
\* after the window end) for a pattern that is none of the four.
C4_IterationCap ==
    /\ phase \in {"addRecurringEvents", "routed"} => body <= 730
    /\ (phase = "addRecurringEvents" /\ draft.recurrence \notin Recurring) =>
           body = (IF Anchor <= WindowEnd THEN 1 ELSE 0)

\* a daily draft whose anchor lies 730 days or more before the window end
C4_CapReached ==
    /\ phase = "addRecurringEvents"
    /\ draft.recurrence = "daily"
    /\ HasWindow
    /\ Anchor + 730 <= window[2]
    /\ body = 730

\* C5: a weekly draft yields exactly the dates anchor + 7k (k >= 0) inside the
\* window, each once, all on the anchor's weekday.
C5_WeeklyExact ==
    (phase = "addRecurringEvents" /\ draft.recurrence = "weekly" /\ HasWindow) =>
        /\ DOMAIN out =
               DateStrs({d \in window[1]..window[2] : d >= Anchor /\ (d - Anchor) % 7 = 0})
        /\ OncePerDate
        /\ \A k \in DOMAIN out : getDay(fromDateString(k)) = getDay(Anchor)

\* C6: a daily draft with a non-empty weekday set yields exactly the days from
\* max(anchor, window start) to the window end whose weekday is in the set; for
\* the other patterns the weekday set does not change the dates.
C6_DailyWeekdays ==
    (phase = "addRecurringEvents" /\ HasWindow) =>
        /\ (draft.recurrence = "daily" /\ Len(draft.recurrenceDays) > 0) =>
               /\ DOMAIN out =
                      DateStrs({d \in window[1]..window[2] :
                                   d >= Anchor /\ getDay(d) \in Range(draft.recurrenceDays)})
               /\ OncePerDate
        /\ draft.recurrence \in {"weekly", "monthly", "yearly"} =>
               DOMAIN out =
                   DOMAIN addRecurringEvents(EmptyMap, [draft EXCEPT !.recurrenceDays = <<>>],
                                             window[1], window[2], today).map

\* C7: a daily draft without weekday set has an occurrence in the index on every
\* day from max(anchor, window start) to the window end.
C7_DailyEveryDay ==
    (/\ phase = "routed"
     /\ draft.recurrence = "daily" /\ Len(draft.recurrenceDays) = 0
     /\ HasWindow) =>
        \A d \in window[1]..window[2] :
            d >= Anchor =>
                /\ toDateString(d) \in DOMAIN out
                /\ \E i \in 1..Len(out[toDateString(d)]) :
                       out[toDateString(d)][i].file = draft.file

\* C8: every occurrence of a monthly draft has the anchor's day of the month,
\* every occurrence of a yearly draft the anchor's month and day.
C8_SameDayOfMonth ==
    phase \in {"addRecurringEvents", "routed"} =>
        \A k \in DOMAIN out :
            \A i \in 1..Len(out[k]) :
                LET d == Civil(fromDateString(out[k][i].dateStr))
                    a == Civil(Anchor)
                IN  /\ draft.recurrence = "monthly" => d[3] = a[3]
                    /\ draft.recurrence = "yearly" => (d[2] = a[2] /\ d[3] = a[3])

\* C9: a draft without recurrence and with an end date e >= anchor a yields one
\* occurrence on each day of a..e, none marked recurring; getDatesBetween(a, e)
\* is the ascending list of these days, empty when e < a.
C9_RangeDays ==
    (/\ phase \in {"addDateRangeEvents", "routed"}
     /\ draft.recurrence \notin Recurring
     /\ draft.endDateStr # <<>>) =>
        LET a == Anchor
            e == fromDateString(draft.endDateStr)
        IN  /\ getDatesBetween(a, e) = [n \in 1..(IF e < a THEN 0 ELSE e - a + 1) |-> a + n - 1]
            /\ e >= a =>
                   /\ DOMAIN out = DateStrs(a..e)
                   /\ Cardinality(DOMAIN out) = e - a + 1
                   /\ \A k \in DOMAIN out :
                          /\ Len(out[k]) = 1
                          /\ out[k][1].dateStr = k
                          /\ ~out[k][1].isRecurring

\* the range 2025-01-15..2025-01-17 routed through the rebuild's dispatch
C9_ThreeDayRange ==
    /\ phase = "routed"
    /\ draft.recurrence = "undefined"
    /\ draft.dateStr = toDateString(D(2025, 1, 15))
    /\ draft.endDateStr = toDateString(D(2025, 1, 17))
    /\ DOMAIN out = DateStrs({D(2025, 1, 15), D(2025, 1, 16), D(2025, 1, 17)})

\* the occurrences in out
Occurrences == UNION {Range(out[k]) : k \in DOMAIN out}

\* out was filled by the while loop of addRecurringEvents
ByRecurrence ==
    \/ phase = "addRecurringEvents"
    \/ phase = "routed" /\ draft.recurrence # "undefined" /\ draft.recurrence # "none"

ApartFromDate(o) == [o EXCEPT !.dateStr = <<>>]

\* C20: every occurrence that recurrence or range expansion makes of a draft
\* has the draft's file, title, time and color; an occurrence of recurrence
\* expansion has isRecurring = true and the draft's date as originalDateStr;
\* the occurrences of one draft are equal in every field but dateStr.
C20_FieldsCarried ==
    phase # "init" =>
        /\ \A o \in Occurrences :
              /\ o.file = draft.file
              /\ o.title = draft.title
              /\ o.time = draft.time
              /\ o.color = draft.color
              /\ ByRecurrence => o.isRecurring /\ o.originalDateStr = draft.dateStr
        /\ \A o1, o2 \in Occurrences : ApartFromDate(o1) = ApartFromDate(o2)
        /\ \A k \in DOMAIN out : \A i \in 1..Len(out[k]) : out[k][i].dateStr = k

\* a weekly draft whose window starts after its date: several occurrences,
\* none of them on the draft's date
C20_WeeklyAfterAnchor ==
    /\ phase = "addRecurringEvents"
    /\ draft.recurrence = "weekly"
    /\ Cardinality(DOMAIN out) >= 2
    /\ draft.dateStr \notin DOMAIN out

WindowStart == IF window[1] # Undefined THEN window[1] ELSE addMonths(today, 0 - 1)

\* the last day of month m (0..11) of year y
LastOfMonth(y, m) == IF m = 11 THEN D(y + 1, 1, 1) - 1 ELSE D(y, m + 2, 1) - 1

\* c = <<year, month, day>> moved to month m (0..11) of year y: the same day of
\* the month, or as many days into the following month as the day lies beyond
\* the month's last
Rolled(y, m, day) ==
    IF D(y, m + 1, 1) + (day - 1) <= LastOfMonth(y, m)
    THEN D(y, m + 1, day)
    ELSE LastOfMonth(y, m) + (day - (LastOfMonth(y, m) - D(y, m + 1, 1) + 1))

\* date d moved on by k calendar months
MonthsLater(d, k) ==
    Rolled(getFullYear(d) + ((getMonth(d) + k) \div 12), (getMonth(d) + k) % 12, getDate(d))

\* the date n steps of k months after d, each step taken from the date before
RECURSIVE Stepped(_, _, _)
Stepped(d, k, n) ==
    IF n = 0 THEN d
    ELSE IF n = 1 THEN MonthsLater(d, k)
    ELSE CHOOSE r \in {Stepped(h, k, n - (n \div 2)) : h \in {Stepped(d, k, n \div 2)}} : TRUE

\* the first n dates of that walk: d, one step later, two steps later, ...
RECURSIVE Walk(_, _, _)
Walk(d, k, n) ==
    IF n = 0 THEN {}
    ELSE IF n = 1 THEN {d}
    ELSE Walk(d, k, n \div 2)
             \cup UNION {Walk(h, k, n - (n \div 2)) : h \in {Stepped(d, k, n \div 2)}}

\* a step of k months is 28 * k days or more, so the walk has left [d, end]
\* after (end - d) \div (28 * k) + 1 dates
Reached(d, k, end) ==
    IF d > end THEN {}
    ELSE {x \in Walk(d, k, ((end - d) \div (28 * k)) + 1) : x <= end}

C22_RoutePriority ==
    phase = "routed" =>
        IF draft.recurrence \in Recurring
        THEN /\ out = addRecurringEvents(EmptyMap, draft, window[1], window[2], today).map
             /\ \A o \in Occurrences : o.isRecurring
             /\ draft.recurrence # "daily" => toDateString(Anchor + 1) \notin DOMAIN out
        ELSE /\ body = 0
             /\ \A o \in Occurrences : ~o.isRecurring
             /\ IF draft.endDateStr # <<>>
                THEN out = addDateRangeEvents(EmptyMap, draft)
                ELSE out = (draft.dateStr :> <<draft>>)

\* a weekly draft with an end date two days after its date: an occurrence on
\* its date, none on the day after
C22_WeeklyWithEndDate ==
    /\ phase = "routed"
    /\ draft.recurrence = "weekly"
    /\ draft.endDateStr = toDateString(Anchor + 2)
    /\ draft.dateStr \in DOMAIN out
    /\ toDateString(Anchor + 1) \notin DOMAIN out
    /\ toDateString(Anchor + 7) \in DOMAIN out

-----------------------------------------------------------------------------
(* Properties of the month grid, checked under SpecGrid *)

\* C10: getDaysForMonth returns 42 consecutive days, the day at index i (from 0)
\* on weekday (weekStartsOn + i) mod 7, starting at most 6 days before the 1st
\* of the reference month, covering the whole month, with isCurrentMonth true
\* exactly on the days of the reference month.
C10_MonthGrid ==
    phase = "getDaysForMonth" =>
        LET c == Civil(refDate)
            first == MakeDay(c[1], c[2], 1)
            nextFirst == MakeDay(c[1], c[2] + 1, 1)
        IN  /\ Len(days) = 42
            /\ \A n \in 1..Len(days) :
                   /\ days[n].date = days[1].date + (n - 1)
                   /\ getDay(days[n].date) = (settings.weekStartsOn + n - 1) % 7
                   /\ days[n].isCurrentMonth <=> (first <= days[n].date /\ days[n].date < nextFirst)
            /\ first - days[1].date \in 0..6
            /\ \A d \in first..(nextFirst - 1) : \E n \in 1..Len(days) : days[n].date = d

\* the grid of February 2024 (29 days) with weeks starting on Sunday
C10_LeapFebruary ==
    /\ phase = "getDaysForMonth"
    /\ getFullYear(refDate) = 2024 /\ getMonth(refDate) = 1
    /\ settings.weekStartsOn = 0
    /\ Len(days) = 42
    /\ days[5].isCurrentMonth /\ days[33].isCurrentMonth /\ ~days[34].isCurrentMonth

\* C27: getWeeksForMonth returns 6 weeks of 7 days each, and in every week all
\* 7 days have the week's weekNumber, for every month and for weeks starting on
\* Monday (ISO) as for weeks starting on Sunday, also in a week that holds days
\* of two years.
C27_WeekNumbers ==
    phase = "getWeeksForMonth" =>
        /\ Len(ret) = 6
        /\ \A w \in 1..Len(ret) :
              /\ Len(ret[w].days) = 7
              /\ \A i \in 1..Len(ret[w].days) :
                    ret[w].days[i].weekNumber = ret[w].weekNumber

-----------------------------------------------------------------------------
(* Properties of the navigation, checked under SpecNav *)

\* the months counted from year 0 on
MonthIndex(date) == 12 * getFullYear(date) + getMonth(date)

\* the month the view shows: that of the days of the grid marked isCurrentMonth
ShownMonth == MonthIndex(days[CHOOSE i \in 1..Len(days) : days[i].isCurrentMonth].date)

\* C28: in month view navigateNext moves the month shown on by exactly one
\* month and navigatePrevious back by exactly one, from every current date,
\* also the 29th, 30th and 31st; navigateNext followed by navigatePrevious
\* shows the month shown before.
C28_MonthNavigation ==
    view.viewMode = "month" =>
        /\ nav.op = "next" => ShownMonth = MonthIndex(nav.from) + 1
        /\ nav.op = "previous" => ShownMonth = MonthIndex(nav.from) - 1
        /\ (nav.op = "previous" /\ nav.prevOp = "next") => ShownMonth = MonthIndex(nav.prevFrom)

-----------------------------------------------------------------------------
(* Properties of the EventBus, checked under SpecBus *)

\* how often the listener seq was entered so far
Invocations(seq) == Cardinality({i \in 1..Len(bus.log) : bus.log[i] = seq})

\* C29: a callback registered with once is called at most once over all emits
\* of the event, also when it emits the event itself; and when a callback
\* throws during an emit, the other listeners of the event are still called
\* and the error does not leave emit.
C29_OnceAndIsolation ==
    /\ \A seq \in bus.onces : Invocations(seq) <= 1
    /\ phase = "emit" =>
           /\ ~bus.last.escaped
           /\ \A seq \in bus.last.before : \E i \in 1..Len(bus.last.invoked) : bus.last.invoked[i] = seq

\* an emit during which the first listener threw, a later one was called, and
\* a once callback emitted the event again without being called again
C29_ThrowThenReemit ==
    /\ phase = "emit"
    /\ bus.last.caught > 0
    /\ \E i, j \in 1..Len(bus.last.invoked) :
          /\ i < j
          /\ bus.last.invoked[i] = bus.last.invoked[j]
    /\ Len(bus.last.invoked) > Cardinality(bus.last.before)
    /\ bus.last.before \cap bus.onces # {}

-----------------------------------------------------------------------------
(* Properties of debounce, checked under SpecDebounce *)

-----------------------------------------------------------------------------
(* Properties of the utility functions, checked under SpecUtil *)

Returned(op) == phase = "returned" /\ call.op = op

\* the required tags of a filter: its maximal runs of characters other than
\* comma and whitespace
RequiredTagSet(filter) ==
    LET sep == {44, 32, 9, 10, 13}
    IN  {SubSeq(filter, i, j) : <<i, j>> \in
            {ij \in (1..Len(filter)) \X (1..Len(filter)) :
                /\ ij[1] <= ij[2]
                /\ \A k \in ij[1]..ij[2] : filter[k] \notin sep
                /\ (ij[1] = 1 \/ filter[ij[1] - 1] \in sep)
                /\ (ij[2] = Len(filter) \/ filter[ij[2] + 1] \in sep)}}

\* the tag set of a document: its inline tags without the leading "#" and its
\* frontmatter tags
DocumentTagSet(cache) ==
    {IF Head(cache.tags[i]) = 35 THEN Tail(cache.tags[i]) ELSE cache.tags[i] :
        i \in 1..Len(cache.tags)}
    \cup {cache.frontmatter.tags.items[i] : i \in 1..Len(cache.frontmatter.tags.items)}

\* C11: hasRequiredTags is true for every document when the filter has no
\* required tag (empty, whitespace or commas only); otherwise in mode all it is
\* true iff every required tag is a member of the document's tag set, in any
\* other mode iff at least one is; membership is equality of the strings.
C11_TagFilter ==
    Returned("hasRequiredTags") =>
        LET required == RequiredTagSet(call.settings.tagFilter)
            tags == DocumentTagSet(call.cache)
        IN  ret = IF required = {} THEN TRUE
                  ELSE IF call.settings.tagFilterMode = "all" THEN required \subseteq tags
                  ELSE required \cap tags # {}

\* required {calendar, meeting}, document {calendar}: mode all gives false
C11_AllNeedsBoth ==
    /\ Returned("hasRequiredTags")
    /\ call.settings.tagFilter = <<99, 97, 108, 101, 110, 100, 97, 114, 44, 32, 109, 101, 101, 116, 105, 110, 103>>
    /\ call.settings.tagFilterMode = "all"
    /\ DocumentTagSet(call.cache) = {<<99, 97, 108, 101, 110, 100, 97, 114>>}
    /\ ret = FALSE

\* C12: for every valid date string s in YYYY-MM-DD form
\* toDateString(fromDateString(s)) = s, and normalizeDate gives s back, so that
\* normalizing its result again changes nothing.
C12_RoundTrip ==
    /\ Returned("roundTrip") => ret = call.s
    /\ (Returned("normalizeDate") /\ call.s \in ValidDateStrings) =>
           (ret = call.s /\ normalizeDate(ret) = ret)

\* ISO 8601: week 1 of year y is the week (Monday to Sunday) that holds the
\* 4th of January; its Monday
IsoWeekOneMonday(y) == D(y, 1, 4) - ((D(y, 1, 4) + 3) % 7)

IsoWeekNumber(date) ==
    LET y == CHOOSE yy \in (WeekFirstYear - 1)..(WeekLastYear + 1) :
                 IsoWeekOneMonday(yy) <= date /\ date < IsoWeekOneMonday(yy + 1)
    IN  ((date - IsoWeekOneMonday(y)) \div 7) + 1

C14_FormatTokens ==
    Returned("formatDate") =>
        /\ call.format = <<77, 77, 77, 77>> => ret = MonthNames[getMonth(call.date) + 1]
        /\ call.format = <<77, 77, 77>> => ret = ShortMonthNames[getMonth(call.date) + 1]
        /\ call.format = <<100, 100, 100, 100>> => ret = DayNames[getDay(call.date) + 1]
        /\ call.format = <<89, 89, 89, 89, 45, 77, 77, 45, 68, 68>> => ret = toDateString(call.date)

\* the place an occurrence takes in the order of a day: its parseTime value
\* (0 when the time does not parse), behind all of them when it has no time
TimeRank(event) ==
    IF event.time = <<>> THEN 24 * 60
    ELSE IF parseTime(event.time) = Null THEN 0
    ELSE parseTime(event.time)

IndexIn(events, e) == CHOOSE i \in 1..Len(events) : events[i] = e

\* C15: getDayEvents returns exactly the occurrences stored under the date,
\* ascending by the parseTime value of their time, the occurrences without a
\* time behind all the others, and occurrences of equal time (and the untimed
\* ones) in their order in the index.
C15_DayEventsOrder ==
    Returned("getDayEvents") =>
        LET stored == eventsAt(call.eventsMap, toDateString(call.date))
        IN  /\ Len(ret) = Len(stored)
            /\ Range(ret) = Range(stored)
            /\ \A i, j \in 1..Len(ret) :
                   i < j => \/ TimeRank(ret[i]) < TimeRank(ret[j])
                            \/ /\ TimeRank(ret[i]) = TimeRank(ret[j])
                               /\ IndexIn(stored, ret[i]) < IndexIn(stored, ret[j])

\* stored: no time, "14:30", "2:30 PM"; returned: "14:30", "2:30 PM", no time
C15_UntimedLast ==
    /\ Returned("getDayEvents")
    /\ Len(ret) = 3
    /\ call.eventsMap[toDateString(call.date)][1].time = <<>>
    /\ call.eventsMap[toDateString(call.date)][2].time = <<49, 52, 58, 51, 48>>
    /\ call.eventsMap[toDateString(call.date)][3].time = <<50, 58, 51, 48, 32, 80, 77>>
    /\ ret[1].time = <<49, 52, 58, 51, 48>> /\ ret[2].time = <<50, 58, 51, 48, 32, 80, 77>> /\ ret[3].time = <<>>

\* the letters of a string made lower case
Lower(str) == [i \in 1..Len(str) |-> IF str[i] \in 65..90 THEN str[i] + 32 ELSE str[i]]

\* title contains query, whatever the case of the letters
ContainsIgnoringCase(title, query) ==
    \E i \in 1..(Len(title) - Len(query) + 1) :
        \A k \in 1..Len(query) : Lower(title)[i + k - 1] = Lower(query)[k]

\* C16: filterEvents returns the index itself for an empty or whitespace-only
\* query; otherwise its result holds, for each date, exactly the occurrences
\* whose title contains the query case-insensitively, in their order, and no
\* date without such an occurrence; the index handed in is not modified.
C16_FilterEvents ==
    Returned("filterEvents") =>
        /\ out = call.eventsMap
        /\ IF \A i \in 1..Len(call.query) : call.query[i] \in {32, 9, 10, 13}
           THEN ret = call.eventsMap
           ELSE /\ DOMAIN ret =
                      {k \in DOMAIN call.eventsMap :
                          \E i \in 1..Len(call.eventsMap[k]) :
                              ContainsIgnoringCase(call.eventsMap[k][i].title, call.query)}
                /\ \A k \in DOMAIN ret :
                      ret[k] = SelectSeq(call.eventsMap[k],
                                         LAMBDA e : ContainsIgnoringCase(e.title, call.query))

\* query "MEET": one date keeps "Meetup" of its two occurrences, the other
\* date has no match and is dropped
C16_DateDropped ==
    /\ Returned("filterEvents")
    /\ call.query = <<77, 69, 69, 84>>
    /\ Cardinality(DOMAIN call.eventsMap) = 2
    /\ DOMAIN ret = {toDateString(Today)}
    /\ Len(call.eventsMap[toDateString(Today)]) = 2
    /\ Len(ret[toDateString(Today)]) = 1
    /\ ret[toDateString(Today)][1].title = <<77, 101, 101, 116, 117, 112>>

\* the elements of a date array that parse to a valid date, in array order
ValidItems(items) == SelectSeq(items, LAMBDA e : Len(normalizeDate(e)) > 0)

ExpectedDates(value) ==
    IF value.kind = "absent" THEN <<>> ELSE ValidItems(value.items)

SharedFields(e) == <<e.endDateStr, e.time, e.color, e.recurrence, e.recurrenceDays>>

\* C21: a document whose date property is an array yields one draft for each
\* element that parses to a valid date, in array order, all with the document's
\* end date, time, color, recurrence and weekday set; an element that does not
\* parse is skipped and the drafts of the other elements stay; a scalar date
\* yields at most one draft.
C21_ArrayDates ==
    Returned("createEventsFromFile") =>
        /\ ~ret.threw
        /\ Len(ret.events) = Len(ExpectedDates(call.file.cache.frontmatter.date))
        /\ \A i \in 1..Len(ret.events) :
              /\ ret.events[i].dateStr
                     = normalizeDate(ExpectedDates(call.file.cache.frontmatter.date)[i])
              /\ SharedFields(ret.events[i]) = SharedFields(ret.events[1])
              /\ ret.events[i].time = call.file.cache.frontmatter.time
              /\ ret.events[i].color = call.file.cache.frontmatter.color
        /\ call.file.cache.frontmatter.date.kind = "scalar" => Len(ret.events) <= 1

\* C26: a document that passes the tag filter, has a date that parses and has no
\* recurrence puts at least one occurrence on its date into the rebuilt index,
\* whatever its end date property holds: nothing, something that does not
\* parse, the date itself, a later date or an earlier date.
C26_AnchorOccurrence ==
    (/\ Returned("rebuild")
     /\ hasRequiredTags(call.file.cache, call.settings)
     /\ Len(normalizeDate(getDateFromFrontmatter(call.file.cache, "date"))) > 0
     /\ parseRecurrence(call.file.cache.frontmatter.recurrence) \in {"undefined", "none"})
        => /\ normalizeDate(getDateFromFrontmatter(call.file.cache, "date")) \in DOMAIN ret
           /\ \E o \in Range(ret[normalizeDate(getDateFromFrontmatter(call.file.cache, "date"))]) :
                  o.file = call.file.path

====
